---- MODULE Spec2Model ----
(***************************************************************************)
(* Model of EditableTextModel (the text-buffer edit-application engine):   *)
(* applyEdits validates a batch of edit operations, rejects overlapping    *)
(* or out-of-editable-range batches, computes the inverse operations,      *)
(* splices the line array and stamps and emits the change events.          *)
(*                                                                         *)
(* A text is a sequence of UTF-16 code units, each written as a one        *)
(* character string.  A Line is a record [oid, lineNumber, text, markers]; *)
(* oid is the identity of the ModelLine object, markers the ids of the     *)
(* markers the Line holds.  markerIdToMarker maps a marker id to           *)
(* [line, column, stick]; line is the oid of the Line the marker points    *)
(* back to.                                                                *)
(***************************************************************************)
EXTENDS Integers, Sequences, FiniteSets, TLC

LF == "\n"
CR == "\r"

Min2(a, b) == IF a < b THEN a ELSE b
Max2(a, b) == IF a > b THEN a ELSE b

(* ---------------- String primitives (JavaScript semantics) ------------- *)

\* The array whose elements are f[1], ..., f[n], each computed once.
Array(f) == f \o <<>>

\* String.prototype.substring(a, b) on 0-based offsets: both clamped to
\* [0, length], swapped when a > b.
Substring(t, a, b) ==
    LET a1 == Max2(0, Min2(Len(t), a))
        b1 == Max2(0, Min2(Len(t), b))
    IN  SubSeq(t, Min2(a1, b1) + 1, Max2(a1, b1))

\* String.prototype.substring(a): to the end of the string.
SubstringFrom(t, a) == Substring(t, a, Len(t))

\* Array.prototype.join(sep) of an array of strings.
RECURSIVE Join(_, _)
Join(parts, sep) ==
    IF Len(parts) = 0 THEN <<>>
    ELSE IF Len(parts) = 1 THEN parts[1]
    ELSE Join(SubSeq(parts, 1, Len(parts) - 1), sep) \o sep \o parts[Len(parts)]

\* text.split(/\r\n|\r|\n/): the pieces between consecutive line breaks.
\* A break starts at a CR, or at an LF that does not follow a CR (that LF is
\* part of the break its CR starts), and a CR followed by LF is one break.
SplitLines(t) ==
    LET starts == {i \in 1..Len(t) : t[i] = CR \/ (t[i] = LF /\ (i = 1 \/ t[i - 1] # CR))}
        nb     == Cardinality(starts)
        StartOf(k) == CHOOSE i \in starts : Cardinality({j \in starts : j < i}) = k - 1
        EndOf(k)   == IF t[StartOf(k)] = CR /\ StartOf(k) < Len(t) /\ t[StartOf(k) + 1] = LF
                      THEN StartOf(k) + 1 ELSE StartOf(k)
    IN  Array([k \in 1..(nb + 1) |->
                  SubSeq(t, IF k = 1 THEN 1 ELSE EndOf(k - 1) + 1,
                            IF k = nb + 1 THEN Len(t) ELSE StartOf(k) - 1)])

\* text.split('\n') as used by _toSingleEditOperation: the pieces between
\* consecutive LF code units.
SplitLF(t) ==
    LET breaks == {i \in 1..Len(t) : t[i] = LF}
        nb     == Cardinality(breaks)
        BreakAt(k) == IF k = 0 THEN 0
                      ELSE IF k = nb + 1 THEN Len(t) + 1
                      ELSE CHOOSE i \in breaks : Cardinality({j \in breaks : j < i}) = k - 1
    IN  Array([k \in 1..(nb + 1) |-> SubSeq(t, BreakAt(k - 1) + 1, BreakAt(k) - 1)])

(* ---------------- Position and Range ----------------------------------- *)

Pos(l, c) == [lineNumber |-> l, column |-> c]

MkRange(sl, sc, el, ec) ==
    [startLineNumber |-> sl, startColumn |-> sc,
     endLineNumber |-> el, endColumn |-> ec]

getStartPosition(r) == Pos(r.startLineNumber, r.startColumn)
getEndPosition(r) == Pos(r.endLineNumber, r.endColumn)

\* Position.isBeforeOrEqual
isBeforeOrEqual(a, b) ==
    \/ a.lineNumber < b.lineNumber
    \/ a.lineNumber = b.lineNumber /\ a.column <= b.column

\* Range.compareRangesUsingEnds: by end position, then by start position.
compareRangesUsingEnds(a, b) ==
    IF a.endLineNumber = b.endLineNumber
    THEN IF a.endColumn = b.endColumn
         THEN IF a.startLineNumber = b.startLineNumber
              THEN a.startColumn - b.startColumn
              ELSE a.startLineNumber - b.startLineNumber
         ELSE a.endColumn - b.endColumn
    ELSE a.endLineNumber - b.endLineNumber

(* ---------------- Read access to the line array ------------------------ *)

getLineCount(L) == Len(L)
getLineMaxColumn(L, n) == Len(L[n].text) + 1

\* TextModel.validatePosition: line clamped into [1, lineCount], column
\* into [1, lineLength + 1].
validatePosition(L, p) ==
    LET l == Max2(1, Min2(getLineCount(L), p.lineNumber))
        c == Max2(1, Min2(getLineMaxColumn(L, l), p.column))
    IN  Pos(l, c)

\* TextModel.validateRange
validateRange(L, r) ==
    LET s == validatePosition(L, getStartPosition(r))
        e == validatePosition(L, getEndPosition(r))
    IN  MkRange(s.lineNumber, s.column, e.lineNumber, e.column)

\* TextModel.getValueInRange: the covered text, lines joined by the EOL.
RECURSIVE MiddleLines(_, _, _, _)
MiddleLines(L, from, to, eol) ==
    IF from > to THEN <<>>
    ELSE L[from].text \o eol \o MiddleLines(L, from + 1, to, eol)

getValueInRange(L, eol, r) ==
    IF r.startLineNumber = r.endLineNumber
    THEN Substring(L[r.startLineNumber].text, r.startColumn - 1, r.endColumn - 1)
    ELSE SubstringFrom(L[r.startLineNumber].text, r.startColumn - 1) \o eol
         \o MiddleLines(L, r.startLineNumber + 1, r.endLineNumber - 1, eol)
         \o Substring(L[r.endLineNumber].text, 0, r.endColumn - 1)

\* TextModel.getValueLengthInRange
getValueLengthInRange(L, eol, r) == Len(getValueInRange(L, eol, r))

\* TextModel.getFullModelRange
getFullModelRange(L) == MkRange(1, 1, getLineCount(L), getLineMaxColumn(L, getLineCount(L)))

\* The texts of the lines, in order.
LineTexts(L) == [i \in 1..Len(L) |-> L[i].text]

(* ---------------- ModelLine (line storage collaborator) ---------------- *)

\* new ModelLine(lineNumber, text): a Line with a fresh identity, no markers.
NewLine(oid, n, text) == [oid |-> oid, lineNumber |-> n, text |-> text, markers |-> {}]

\* ModelLine.addMarkers: the Line takes the markers and each marker's
\* back-reference is set to it.
LineAddMarkers(line, mk, ids) ==
    [line |-> [line EXCEPT !.markers = @ \cup ids],
     mk   |-> [m \in DOMAIN mk |-> IF m \in ids THEN [mk[m] EXCEPT !.line = line.oid]
                                   ELSE mk[m]]]

\* The markers split() hands to the new Line: those after the split column
\* and, at the split column, those that are forced or do not stick to the
\* previous character.
MovesOnSplit(marker, splitColumn, forceMoveMarkers) ==
    \/ marker.column > splitColumn
    \/ marker.column = splitColumn /\ (forceMoveMarkers \/ ~marker.stick)

\* ModelLine.split(changedMarkers, splitColumn, forceMoveMarkers): this Line
\* keeps the text before the column, the returned new Line (numbered
\* lineNumber + 1) gets the rest and the moved markers, rebased.
LineSplit(line, mk, splitColumn, forceMoveMarkers, newOid) ==
    LET myText     == Substring(line.text, 0, splitColumn - 1)
        otherText  == SubstringFrom(line.text, splitColumn - 1)
        otherIds   == {m \in line.markers : MovesOnSplit(mk[m], splitColumn, forceMoveMarkers)}
        mk1        == [m \in DOMAIN mk |->
                          IF m \in otherIds
                          THEN [mk[m] EXCEPT !.column = @ - (splitColumn - 1)]
                          ELSE mk[m]]
        added      == LineAddMarkers(NewLine(newOid, line.lineNumber + 1, otherText), mk1, otherIds)
    IN  [line  |-> [line EXCEPT !.text = myText, !.markers = @ \ otherIds],
         other |-> added.line,
         mk    |-> added.mk]

\* ModelLine.append(changedMarkers, other): other's text is appended and
\* other's markers are shifted by this Line's old length and taken over.
LineAppend(line, mk, other) ==
    LET thisTextLength == Len(line.text)
        mk1 == [m \in DOMAIN mk |->
                   IF m \in other.markers
                   THEN [mk[m] EXCEPT !.column = @ + thisTextLength]
                   ELSE mk[m]]
    IN  LineAddMarkers([line EXCEPT !.text = @ \o other.text], mk1, other.markers)

\* ModelLine.deleteLine(changedMarkers, setMarkersColumn, oldLineNumber):
\* every marker of the Line is set to the given column and returned.
LineDeleteLine(line, mk, setMarkersColumn) ==
    [markers |-> line.markers,
     mk      |-> [m \in DOMAIN mk |->
                     IF m \in line.markers
                     THEN [mk[m] EXCEPT !.column = setMarkersColumn]
                     ELSE mk[m]]]

\* ModelLine.updateLineNumber
LineUpdateLineNumber(line, n) == [line EXCEPT !.lineNumber = n]

\* The text part of ModelLine.applyEdits: the edits, ascending and given in
\* pre-edit columns, applied left to right with a running column delta.
RECURSIVE ApplyTextEdits(_, _, _, _)
ApplyTextEdits(text, edits, i, deltaColumn) ==
    IF i > Len(edits) THEN text
    ELSE LET edit        == edits[i]
             startColumn == deltaColumn + edit.startColumn
             endColumn   == deltaColumn + edit.endColumn
             resultText  == Substring(text, 0, startColumn - 1) \o edit.text
                            \o SubstringFrom(text, endColumn - 1)
         IN  ApplyTextEdits(resultText, edits, i + 1,
                            deltaColumn + Len(edit.text) - (endColumn - startColumn))

\* The markers adjuster of ModelLine.applyEdits, followed for one marker at
\* column c: the first adjust call that reaches the marker decides its new
\* column (markers are visited once, in column order).
RECURSIVE AdjustedColumn(_, _, _, _, _, _)
AdjustedColumn(c, stick, edits, i, deltaColumn, finalLength) ==
    IF i > Len(edits)
    THEN IF deltaColumn # 0 THEN Max2(1, Min2(finalLength + 1, c + deltaColumn)) ELSE c
    ELSE LET edit         == edits[i]
             startColumn  == deltaColumn + edit.startColumn
             endColumn    == deltaColumn + edit.endColumn
             deletingCnt  == endColumn - startColumn
             insertingCnt == Len(edit.text)
             commonLength == Min2(deletingCnt, insertingCnt)
             Before(toColumn) ==
                 \/ c < toColumn
                 \/ c = toColumn /\ ~edit.forceMoveMarkers /\ stick
         IN  IF Before(edit.startColumn)
             THEN IF deltaColumn # 0 THEN Max2(1, c + deltaColumn) ELSE c
             ELSE IF commonLength > 0 /\ ~edit.forceMoveMarkers
                     /\ Before(edit.startColumn + commonLength)
             THEN IF deltaColumn # 0 THEN Max2(startColumn, c + deltaColumn) ELSE c
             ELSE IF Before(edit.endColumn)
             THEN startColumn + insertingCnt
             ELSE AdjustedColumn(c, stick, edits, i + 1,
                                 deltaColumn + insertingCnt - deletingCnt, finalLength)

\* ModelLine.applyEdits(changedMarkers, edits)
LineApplyEdits(line, mk, edits) ==
    LET resultText == ApplyTextEdits(line.text, edits, 1, 0)
    IN  [line |-> [line EXCEPT !.text = resultText],
         mk   |-> [m \in DOMAIN mk |->
                      IF m \in line.markers
                      THEN [mk[m] EXCEPT !.column =
                               AdjustedColumn(mk[m].column, mk[m].stick, edits, 1, 0,
                                              Len(resultText))]
                      ELSE mk[m]]]

(* ---------------- Tracked ranges (editable range) ---------------------- *)

EditStartId == "editStart"
EditEndId == "editEnd"

\* The index of the Line with the given identity.
IndexOfLine(L, oid) == CHOOSE i \in 1..Len(L) : L[i].oid = oid

\* new Range(...): the constructor orders its two positions.
NewRange(sl, sc, el, ec) ==
    IF sl > el \/ (sl = el /\ sc > ec) THEN MkRange(el, ec, sl, sc)
    ELSE MkRange(sl, sc, el, ec)

\* TextModelWithTrackedRanges.getTrackedRange: from the current positions
\* of the range's two markers.
getTrackedRange(L, mk) ==
    LET s == mk[EditStartId]
        e == mk[EditEndId]
    IN  NewRange(L[IndexOfLine(L, s.line)].lineNumber, s.column,
                 L[IndexOfLine(L, e.line)].lineNumber, e.column)

\* EditableTextModel.getEditableRange
getEditableRange(L, mk, hasRange) ==
    IF hasRange THEN getTrackedRange(L, mk) ELSE getFullModelRange(L)

\* The disposal check at the head of getEditableRange never throwing.
getEditableRangeNeverThrows(disposed) == FALSE

\* getEditableRange() on a disposed model throws 'EditableTextModel.
\* getEditableRange: Model is disposed' before it reads anything.
getEditableRangeThrows(disposed) == disposed

(* ---------------- applyEdits: normalise, sort, check, reduce ----------- *)

\* Batches of this many operations or more are collapsed into one.
ReduceThreshold == 1000

\* The loop of applyEdits that builds one IValidatedEditOperation per raw
\* operation.  A missing or empty text gives lines = null, written <<>>
\* (split never returns an empty array).
ValidateOperations(L, eol, rawOperations) ==
    Array([i \in 1..Len(rawOperations) |->
        LET op             == rawOperations[i]
            validatedRange == validateRange(L, op.range)
        IN  [identifier       |-> op.identifier,
             range            |-> validatedRange,
             rangeLength      |-> getValueLengthInRange(L, eol, validatedRange),
             lines            |-> IF Len(op.text) > 0 THEN SplitLines(op.text) ELSE <<>>,
             forceMoveMarkers |-> op.forceMoveMarkers]])

\* operations.sort(comparator), sign = 1, or with the negated comparator,
\* sign = -1.  Operations that compare equal have equal ranges; their
\* relative order is the input order here, and a batch that has two of them
\* is rejected by the overlap check whatever that order is.
\* SortRanks[j] is the place operation j takes in the sorted batch.
SortRanks(operations, sign) ==
    Array([j \in 1..Len(operations) |->
        1 + Cardinality({k \in 1..Len(operations) :
              sign * compareRangesUsingEnds(operations[k].range, operations[j].range)
                  < (IF k < j THEN 1 ELSE 0)})])

Permuted(operations, rank) ==
    Array([i \in 1..Len(rank) |-> operations[CHOOSE j \in 1..Len(rank) : rank[j] = i]])

SortOperations(operations, sign) == Permuted(operations, SortRanks(operations, sign))

\* The overlap check with a strict comparison: an operation that starts
\* exactly where the one before it ends passes.
HasOverlapStrict(operations) ==
    \E i \in 1..(Len(operations) - 1) :
        /\ isBeforeOrEqual(getStartPosition(operations[i + 1].range),
                           getEndPosition(operations[i].range))
        /\ getStartPosition(operations[i + 1].range) # getEndPosition(operations[i].range)

\* "Operations can not overlap!": some operation of the ascending batch
\* starts before or at the end of the one before it.
HasOverlap(operations) ==
    \E i \in 1..(Len(operations) - 1) :
        isBeforeOrEqual(getStartPosition(operations[i + 1].range),
                        getEndPosition(operations[i].range))

\* Concatenation of pieces[lo..hi].
RECURSIVE ConcatRange(_, _, _)
ConcatRange(pieces, lo, hi) ==
    IF lo > hi THEN <<>>
    ELSE IF lo = hi THEN pieces[lo]
    ELSE LET mid == (lo + hi) \div 2
         IN  ConcatRange(pieces, lo, mid) \o ConcatRange(pieces, mid + 1, hi)

\* Step (1) of the loop of _toSingleEditOperation: the old text between
\* (lastEndLineNumber, lastEndColumn) and the start of `range`.
RECURSIVE OldLinesBetween(_, _, _, _, _)
OldLinesBetween(L, lineNumber, lastEndLineNumber, lastEndColumn, startLineNumber) ==
    IF lineNumber >= startLineNumber THEN <<>>
    ELSE (IF lineNumber = lastEndLineNumber
          THEN SubstringFrom(L[lineNumber].text, lastEndColumn - 1)
          ELSE <<LF>> \o L[lineNumber].text)
         \o OldLinesBetween(L, lineNumber + 1, lastEndLineNumber, lastEndColumn, startLineNumber)

\* Step (1) without the line break pushed before the text of the line the
\* operation starts on.
OldTextBeforeNoBreak(L, lastEndLineNumber, lastEndColumn, range) ==
    OldLinesBetween(L, lastEndLineNumber, lastEndLineNumber, lastEndColumn, range.startLineNumber)
    \o (IF range.startLineNumber = lastEndLineNumber
        THEN Substring(L[range.startLineNumber].text, lastEndColumn - 1, range.startColumn - 1)
        ELSE Substring(L[range.startLineNumber].text, 0, range.startColumn - 1))

OldTextBefore(L, lastEndLineNumber, lastEndColumn, range) ==
    OldLinesBetween(L, lastEndLineNumber, lastEndLineNumber, lastEndColumn, range.startLineNumber)
    \o (IF range.startLineNumber = lastEndLineNumber
        THEN Substring(L[range.startLineNumber].text, lastEndColumn - 1, range.startColumn - 1)
        ELSE <<LF>> \o Substring(L[range.startLineNumber].text, 0, range.startColumn - 1))

\* _toSingleEditOperation: one operation from the first start to the last
\* end whose text is the old text between the operations interleaved with
\* their replacements.  In iteration i the loop's (lastEndLineNumber,
\* lastEndColumn) is the end of operation i - 1 (the first start for i = 1).
toSingleEditOperation(L, eol, operations) ==
    LET n               == Len(operations)
        firstEditRange  == operations[1].range
        lastEditRange   == operations[n].range
        entireEditRange == NewRange(firstEditRange.startLineNumber, firstEditRange.startColumn,
                                    lastEditRange.endLineNumber, lastEditRange.endColumn)
        pieces == Array([i \in 1..n |->
                     LET range == operations[i].range
                         lastEndLineNumber == IF i = 1 THEN firstEditRange.startLineNumber
                                              ELSE operations[i - 1].range.endLineNumber
                         lastEndColumn     == IF i = 1 THEN firstEditRange.startColumn
                                              ELSE operations[i - 1].range.endColumn
                     IN  OldTextBefore(L, lastEndLineNumber, lastEndColumn, range)
                         \o Join(operations[i].lines, <<LF>>)])
    IN  [identifier       |-> operations[1].identifier,
         range            |-> entireEditRange,
         rangeLength      |-> getValueLengthInRange(L, eol, entireEditRange),
         lines            |-> SplitLF(ConcatRange(pieces, 1, n)),
         forceMoveMarkers |-> \E i \in 1..n : operations[i].forceMoveMarkers]

\* _reduceOperations with the threshold one lower: a batch of
\* ReduceThreshold - 1 operations is collapsed too.
reduceOperationsEarly(L, eol, operations) ==
    IF Len(operations) < ReduceThreshold - 1 THEN operations
    ELSE <<toSingleEditOperation(L, eol, operations)>>

\* _reduceOperations
reduceOperations(L, eol, operations) ==
    IF Len(operations) < ReduceThreshold THEN operations
    ELSE <<toSingleEditOperation(L, eol, operations)>>

\* The editable-range loop with the start boundary excluded: an operation
\* that starts where the editable range starts is outside.
OutsideEditableRangeExclusive(editableRange, operations) ==
    \E i \in 1..Len(operations) :
        \/ isBeforeOrEqual(getStartPosition(operations[i].range),
                           getStartPosition(editableRange))
        \/ ~isBeforeOrEqual(getEndPosition(operations[i].range),
                            getEndPosition(editableRange))

\* The editable-range loop of applyEdits: some operation starts before the
\* editable range or ends after it.
OutsideEditableRange(editableRange, operations) ==
    \E i \in 1..Len(operations) :
        \/ ~isBeforeOrEqual(getStartPosition(editableRange),
                            getStartPosition(operations[i].range))
        \/ ~isBeforeOrEqual(getEndPosition(operations[i].range),
                            getEndPosition(editableRange))

(* ---------------- Delta operations and inverse ranges ------------------ *)

\* _toDeltaOperation(base, operation); base = null is hasBase = FALSE.
toDeltaOperation(hasBase, base, operation) ==
    LET baseEndLine == IF hasBase THEN base.range.endLineNumber ELSE 0
        deltaStartLineNumber == operation.range.startLineNumber - baseEndLine
        deltaStartColumn == operation.range.startColumn
                            - (IF deltaStartLineNumber = 0 THEN base.range.endColumn ELSE 0)
        deltaEndLineNumber == operation.range.endLineNumber - baseEndLine
        deltaEndColumn == operation.range.endColumn
                          - (IF deltaEndLineNumber = 0 THEN base.range.endColumn ELSE 0)
    IN  [original             |-> operation,
         deltaStartLineNumber |-> deltaStartLineNumber,
         deltaStartColumn     |-> deltaStartColumn,
         deltaEndLineNumber   |-> deltaEndLineNumber,
         deltaEndColumn       |-> deltaEndColumn]

\* _toDeltaOperations
toDeltaOperations(operations) ==
    Array([i \in 1..Len(operations) |->
        toDeltaOperation(i > 1, operations[IF i > 1 THEN i - 1 ELSE 1], operations[i])])

\* The inverse range with the end column of a replacement of several lines
\* taken as the length of its last line, one short.
InverseRangeShort(op, lineNumber, column) ==
    LET startLineNumber == op.deltaStartLineNumber + lineNumber
        startColumn     == op.deltaStartColumn
                           + (IF op.deltaStartLineNumber = 0 THEN column ELSE 0)
        lines           == op.original.lines
    IN  IF Len(lines) > 0
        THEN IF Len(lines) = 1
             THEN NewRange(startLineNumber, startColumn,
                           startLineNumber, startColumn + Len(lines[1]))
             ELSE NewRange(startLineNumber, startColumn,
                           startLineNumber + Len(lines) - 1, Len(lines[Len(lines)]))
        ELSE NewRange(startLineNumber, startColumn, startLineNumber, startColumn)

\* One iteration of _getInverseEditRanges: the range the replacement of
\* `op` occupies, given the running cursor (lineNumber, column).
InverseRangeOf(op, lineNumber, column) ==
    LET startLineNumber == op.deltaStartLineNumber + lineNumber
        startColumn     == op.deltaStartColumn
                           + (IF op.deltaStartLineNumber = 0 THEN column ELSE 0)
        lines           == op.original.lines
    IN  IF Len(lines) > 0
        THEN IF Len(lines) = 1
             THEN NewRange(startLineNumber, startColumn,
                           startLineNumber, startColumn + Len(lines[1]))
             ELSE NewRange(startLineNumber, startColumn,
                           startLineNumber + Len(lines) - 1, Len(lines[Len(lines)]) + 1)
        ELSE NewRange(startLineNumber, startColumn, startLineNumber, startColumn)

\* _getInverseEditRanges with the cursor left at the start of each result
\* range.
RECURSIVE InverseRangesFromStart(_, _, _, _)
InverseRangesFromStart(operations, i, lineNumber, column) ==
    IF i > Len(operations) THEN <<>>
    ELSE LET resultRange == InverseRangeOf(operations[i], lineNumber, column)
         IN  <<resultRange>>
             \o InverseRangesFromStart(operations, i + 1,
                                       resultRange.startLineNumber, resultRange.startColumn)

\* _getInverseEditRanges, from operation i on.
RECURSIVE InverseRangesFrom(_, _, _, _)
InverseRangesFrom(operations, i, lineNumber, column) ==
    IF i > Len(operations) THEN <<>>
    ELSE LET resultRange == InverseRangeOf(operations[i], lineNumber, column)
         IN  <<resultRange>>
             \o InverseRangesFrom(operations, i + 1,
                                  resultRange.endLineNumber, resultRange.endColumn)

getInverseEditRanges(operations) == InverseRangesFrom(operations, 1, 0, 0)

(* ---------------- Change events ---------------------------------------- *)

\* A line-changed event that does not say what the model is doing.
createLineChangedEventUnflagged(L, lineNumber, undoing, redoing) ==
    [changeType |-> "lineChanged", lineNumber |-> lineNumber,
     detail |-> L[lineNumber].text, versionId |-> -1,
     isUndoing |-> FALSE, isRedoing |-> FALSE]

\* _createLineChangedEvent: the detail is the Line's text when the event is
\* created; the version id is stamped later.
createLineChangedEvent(L, lineNumber, undoing, redoing) ==
    [changeType |-> "lineChanged", lineNumber |-> lineNumber,
     detail |-> L[lineNumber].text, versionId |-> -1,
     isUndoing |-> undoing, isRedoing |-> redoing]

\* _createLinesDeletedEvent
createLinesDeletedEvent(fromLineNumber, toLineNumber, undoing, redoing) ==
    [changeType |-> "linesDeleted", fromLineNumber |-> fromLineNumber,
     toLineNumber |-> toLineNumber, versionId |-> -1,
     isUndoing |-> undoing, isRedoing |-> redoing]

\* _createLinesInsertedEvent
createLinesInsertedEvent(fromLineNumber, toLineNumber, newLinesContent, undoing, redoing) ==
    [changeType |-> "linesInserted", fromLineNumber |-> fromLineNumber,
     toLineNumber |-> toLineNumber, detail |-> newLinesContent, versionId |-> -1,
     isUndoing |-> undoing, isRedoing |-> redoing]

(* ---------------- _applyEdits: the splice engine ----------------------- *)
(* The state of one run of the callback of _applyEdits is a record s:     *)
(*   L, mk, nextOid         the line array, the marker index, the next    *)
(*                          ModelLine identity                            *)
(*   queue                  lineEditsQueue                                *)
(*   fine, coarse           contentChangedEvents, contentChanged2Events   *)
(*   delta                  totalLinesCountDelta                          *)
(*   undoing, redoing       _isUndoing, _isRedoing                        *)
(*   endLineRemains, markersOnDeletedLines, leftoverLine                  *)
(*                          the locals of that name                       *)
(*   log                    what the callback did, in order: see Logged   *)
(* Each operator below is one step of that callback, from s to the next s. *)

NoLine == NewLine(0, 0, <<>>)

SpliceStart(L, mk, oid, undoing, redoing) ==
    [L |-> L, mk |-> mk, nextOid |-> oid, queue |-> <<>>,
     fine |-> <<>>, coarse |-> <<>>, delta |-> 0,
     undoing |-> undoing, redoing |-> redoing,
     endLineRemains |-> NoLine, markersOnDeletedLines |-> {}, leftoverLine |-> NoLine,
     log |-> <<>>]

\* The callback's steps are written down as it takes them: `kind` says
\* which step ("operation": a turn of the loop begins; "flush":
\* flushLineEdits finds a queue to flush; "lineEdits": a Line gets an
\* applyEdits call; "structure": a line is split, or lines are removed or
\* inserted; "renumber": the renumbering pass), `queue` is lineEditsQueue
\* at that moment, and the rest is what the step works on.
Logged(s, kind, from, to, range, edits, text) ==
    [s EXCEPT !.log = Append(@, [kind |-> kind, queue |-> s.queue, from |-> from, to |-> to,
                                 range |-> range, edits |-> edits, text |-> text])]

NoRange == NewRange(0, 0, 0, 0)

\* queueLineEdit: an edit that neither deletes nor inserts is dropped.
queueLineEdit(s, lineEdit) ==
    IF lineEdit.startColumn = lineEdit.endColumn /\ Len(lineEdit.text) = 0 THEN s
    ELSE [s EXCEPT !.queue = Append(@, lineEdit)]

Reverse(q) == [i \in 1..Len(q) |-> q[Len(q) + 1 - i]]

\* The end of the run of consecutive queue entries that starts at `from`
\* and shares its line number.
RECURSIVE RunEnd(_, _, _)
RunEnd(q, from, i) ==
    IF i < Len(q) /\ q[i + 1].lineNumber = q[from].lineNumber THEN RunEnd(q, from, i + 1)
    ELSE i

\* this._lines[currentLineNumber - 1].applyEdits(changedMarkers, edits)
ApplyRun(s, currentLineNumber, edits) ==
    LET r == LineApplyEdits(s.L[currentLineNumber], s.mk, edits)
    IN  [Logged(s, "lineEdits", currentLineNumber, currentLineNumber, NoRange, edits, <<>>)
            EXCEPT !.L[currentLineNumber] = r.line, !.mk = r.mk]

\* contentChangedEvents.push(this._createLineChangedEvent(lineNumber))
PushLineChanged(s, lineNumber) ==
    [s EXCEPT !.fine = Append(@, createLineChangedEvent(s.L, lineNumber, s.undoing, s.redoing))]

\* The loop of flushLineEdits over the reversed queue q: each run of
\* consecutive edits with one line number is handed to that Line in one
\* applyEdits call, followed by a line-changed event.
RECURSIVE FlushRuns(_, _, _)
FlushRuns(s, q, from) ==
    IF from > Len(q) THEN s
    ELSE FlushRuns(PushLineChanged(ApplyRun(s, q[from].lineNumber,
                                            SubSeq(q, from, RunEnd(q, from, from))),
                                   q[from].lineNumber),
                   q, RunEnd(q, from, from) + 1)

\* flushLineEdits without the reversal of the queue.
flushLineEditsUnreversed(s) ==
    IF Len(s.queue) = 0 THEN s
    ELSE [FlushRuns(Logged(s, "flush", 0, 0, NoRange, <<>>, <<>>), s.queue, 1)
             EXCEPT !.queue = <<>>]

\* flushLineEdits
flushLineEdits(s) ==
    IF Len(s.queue) = 0 THEN s
    ELSE [FlushRuns(Logged(s, "flush", 0, 0, NoRange, <<>>, <<>>), Reverse(s.queue), 1)
             EXCEPT !.queue = <<>>]

\* The loop "for (let j = editingLinesCnt; j >= 0; j--)": one single-line
\* edit per overlapping line, from the last such line back to the first.
RECURSIVE QueueOverlapEdits(_, _, _)
QueueOverlapEdits(s, op, j) ==
    IF j < 0 THEN s
    ELSE QueueOverlapEdits(
             queueLineEdit(s,
                 [lineNumber  |-> op.range.startLineNumber + j,
                  startColumn |-> IF j = 0 THEN op.range.startColumn ELSE 1,
                  endColumn   |-> IF op.range.startLineNumber + j = op.range.endLineNumber
                                  THEN op.range.endColumn
                                  ELSE getLineMaxColumn(s.L, op.range.startLineNumber + j),
                  text        |-> IF Len(op.lines) > 0 THEN op.lines[j + 1] ELSE <<>>,
                  forceMoveMarkers |-> op.forceMoveMarkers]),
             op, j - 1)

\* Array.prototype.splice(start, deleteCount) on 1-based positions
\* from..to, and splice(at, 0, line).
RemoveLines(L, from, to) == SubSeq(L, 1, from - 1) \o SubSeq(L, to + 1, Len(L))
InsertLineAt(L, at, line) == SubSeq(L, 1, at - 1) \o <<line>> \o SubSeq(L, at, Len(L))

\* The end line split one column late: the character at endColumn goes
\* with the deleted text.
SplitEndLineLate(s, op) ==
    LET sp == LineSplit(s.L[op.range.endLineNumber], s.mk, op.range.endColumn + 1, FALSE,
                        s.nextOid)
    IN  [s EXCEPT !.L[op.range.endLineNumber] = sp.line, !.mk = sp.mk,
                  !.endLineRemains = sp.other, !.nextOid = @ + 1]

\* endLineRemains = this._lines[endLineNumber - 1].split(changedMarkers, endColumn, false)
SplitEndLine(s, op) ==
    LET sp == LineSplit(s.L[op.range.endLineNumber], s.mk, op.range.endColumn, FALSE, s.nextOid)
    IN  [Logged(s, "structure", op.range.endLineNumber, op.range.endLineNumber, NoRange,
                <<>>, <<>>)
            EXCEPT !.L[op.range.endLineNumber] = sp.line, !.mk = sp.mk,
                   !.endLineRemains = sp.other, !.nextOid = @ + 1]

\* The loop "Collect all these markers": deleteLine on lines from..to, every
\* marker on them set to setMarkersColumn.
RECURSIVE CollectDeletedMarkers(_, _, _, _)
CollectDeletedMarkers(s, from, to, setMarkersColumn) ==
    IF from > to THEN s
    ELSE CollectDeletedMarkers(
             [s EXCEPT !.mk = LineDeleteLine(s.L[from], s.mk, setMarkersColumn).mk,
                       !.markersOnDeletedLines =
                           @ \cup LineDeleteLine(s.L[from], s.mk, setMarkersColumn).markers],
             from + 1, to, setMarkersColumn)

\* this._lines.splice(spliceStartLineNumber, spliceCnt)
SpliceOutLines(s, spliceStartLineNumber, spliceCnt) ==
    [Logged(s, "structure", spliceStartLineNumber + 1, spliceStartLineNumber + spliceCnt,
            NoRange, <<>>, <<>>)
        EXCEPT !.L = RemoveLines(@, spliceStartLineNumber + 1, spliceStartLineNumber + spliceCnt)]

\* "Reconstruct first line": append(endLineRemains)
AppendEndLineRemains(s, lineNumber) ==
    LET app == LineAppend(s.L[lineNumber], s.mk, s.endLineRemains)
    IN  [s EXCEPT !.L[lineNumber] = app.line, !.mk = app.mk]

\* The collected markers left behind.
SkipCollectedMarkers(s, lineNumber) == s

\* "Reconstruct first line": addMarkers(markersOnDeletedLines)
AddCollectedMarkers(s, lineNumber) ==
    LET adm == LineAddMarkers(s.L[lineNumber], s.mk, s.markersOnDeletedLines)
    IN  [s EXCEPT !.L[lineNumber] = adm.line, !.mk = adm.mk]

\* contentChangedEvents.push(this._createLinesDeletedEvent(from, to))
PushLinesDeleted(s, fromLineNumber, toLineNumber) ==
    [s EXCEPT !.fine = Append(@, createLinesDeletedEvent(fromLineNumber, toLineNumber,
                                                         s.undoing, s.redoing))]

\* The branch "if (editingLinesCnt < deletingLinesCnt)", after its flush:
\* the lines spliceStartLineNumber + 1 .. endLineNumber are removed and the
\* rest of the end line is joined to line spliceStartLineNumber.
\* spliceStartColumn is read from that line, which the split of the end
\* line does not touch.
DeleteLinesFlushed(s, spliceStartLineNumber, spliceCnt, op) ==
    PushLinesDeleted(
        PushLineChanged(
            AddCollectedMarkers(
                AppendEndLineRemains(
                    SpliceOutLines(
                        CollectDeletedMarkers(
                            [SplitEndLine(s, op) EXCEPT !.markersOnDeletedLines = {}],
                            spliceStartLineNumber + 1,
                            spliceStartLineNumber + spliceCnt,
                            getLineMaxColumn(s.L, spliceStartLineNumber)),
                        spliceStartLineNumber, spliceCnt),
                    spliceStartLineNumber),
                spliceStartLineNumber),
            spliceStartLineNumber),
        spliceStartLineNumber + 1, spliceStartLineNumber + spliceCnt)

\* The delete branch without its flush of the queue.
DeleteLinesUnflushed(s, op, editingLinesCnt) ==
    DeleteLinesFlushed(s, op.range.startLineNumber + editingLinesCnt,
                       op.range.endLineNumber - (op.range.startLineNumber + editingLinesCnt), op)

DeleteLines(s, op, editingLinesCnt) ==
    DeleteLinesFlushed(flushLineEdits(s), op.range.startLineNumber + editingLinesCnt,
                       op.range.endLineNumber - (op.range.startLineNumber + editingLinesCnt), op)

\* leftoverLine = this._lines[spliceLineNumber - 1].split(changedMarkers,
\* spliceColumn, op.forceMoveMarkers)
SplitAtInsertion(s, op, spliceLineNumber, spliceColumn) ==
    LET sp == LineSplit(s.L[spliceLineNumber], s.mk, spliceColumn, op.forceMoveMarkers, s.nextOid)
    IN  [Logged(s, "structure", spliceLineNumber, spliceLineNumber, NoRange, <<>>, <<>>)
            EXCEPT !.L[spliceLineNumber] = sp.line, !.mk = sp.mk,
                   !.leftoverLine = sp.other, !.nextOid = @ + 1]

\* The loop "Lines in the middle": a new Line per inserted line j.
RECURSIVE InsertNewLines(_, _, _, _)
InsertNewLines(s, op, j, insertingLinesCnt) ==
    IF j > insertingLinesCnt THEN s
    ELSE InsertNewLines(
             [Logged(s, "structure", op.range.startLineNumber + j, op.range.startLineNumber + j,
                     NoRange, <<>>, <<>>)
                 EXCEPT !.L = InsertLineAt(@, op.range.startLineNumber + j,
                                           NewLine(s.nextOid, op.range.startLineNumber + j,
                                                   op.lines[j + 1])),
                        !.nextOid = @ + 1],
             op, j + 1, insertingLinesCnt)

\* The leftover line not appended.
DropLeftover(s, lineNumber) == s

\* "Last line": append(leftoverLine)
AppendLeftover(s, lineNumber) ==
    LET app == LineAppend(s.L[lineNumber], s.mk, s.leftoverLine)
    IN  [s EXCEPT !.L[lineNumber] = app.line, !.mk = app.mk]

\* The lines-inserted event counted from the split line on.
PushLinesInsertedFromSplit(s, op, editingLinesCnt, insertingLinesCnt) ==
    [s EXCEPT !.fine = Append(@,
        createLinesInsertedEvent(
            op.range.startLineNumber + editingLinesCnt,
            op.range.startLineNumber + insertingLinesCnt,
            Join([k \in 1..(insertingLinesCnt - editingLinesCnt) |->
                     op.lines[editingLinesCnt + 1 + k]], <<LF>>) \o s.leftoverLine.text,
            s.undoing, s.redoing))]

\* newLinesContent, the leftover text added to its last entry, joined, in
\* contentChangedEvents.push(this._createLinesInsertedEvent(from, to, ...))
PushLinesInserted(s, op, editingLinesCnt, insertingLinesCnt) ==
    [s EXCEPT !.fine = Append(@,
        createLinesInsertedEvent(
            op.range.startLineNumber + editingLinesCnt + 1,
            op.range.startLineNumber + insertingLinesCnt,
            Join([k \in 1..(insertingLinesCnt - editingLinesCnt) |->
                     op.lines[editingLinesCnt + 1 + k]], <<LF>>) \o s.leftoverLine.text,
            s.undoing, s.redoing))]

\* The insert branch without the line-changed event for the split line.
InsertLinesFlushedSilentSplit(s, op, editingLinesCnt, insertingLinesCnt, spliceLineNumber, spliceColumn) ==
    PushLinesInserted(
        AppendLeftover(
            InsertNewLines(
                SplitAtInsertion(s, op, spliceLineNumber, spliceColumn),
                op, editingLinesCnt + 1, insertingLinesCnt),
            op.range.startLineNumber + insertingLinesCnt),
        op, editingLinesCnt, insertingLinesCnt)

\* The branch "if (editingLinesCnt < insertingLinesCnt)", after its flush.
InsertLinesFlushed(s, op, editingLinesCnt, insertingLinesCnt, spliceLineNumber, spliceColumn) ==
    PushLinesInserted(
        AppendLeftover(
            InsertNewLines(
                PushLineChanged(SplitAtInsertion(s, op, spliceLineNumber, spliceColumn),
                                spliceLineNumber),
                op, editingLinesCnt + 1, insertingLinesCnt),
            op.range.startLineNumber + insertingLinesCnt),
        op, editingLinesCnt, insertingLinesCnt)

InsertLines(s, op, editingLinesCnt, insertingLinesCnt) ==
    InsertLinesFlushed(flushLineEdits(s), op, editingLinesCnt, insertingLinesCnt,
        op.range.startLineNumber + editingLinesCnt,
        (IF editingLinesCnt = 0 THEN op.range.startColumn ELSE 1)
        + (IF Len(op.lines) > 0 THEN Len(op.lines[editingLinesCnt + 1]) ELSE 0))

\* An operation with an empty range and nothing to insert.
IsNoOp(op) ==
    /\ op.range.startLineNumber = op.range.endLineNumber
    /\ op.range.startColumn = op.range.endColumn
    /\ Len(op.lines) = 0

\* contentChanged2Events.push({...})
PushContentChanged2(s, op, eol) ==
    [s EXCEPT !.coarse = Append(@,
        [range       |-> NewRange(op.range.startLineNumber, op.range.startColumn,
                                  op.range.endLineNumber, op.range.endColumn),
         rangeLength |-> op.rangeLength,
         text        |-> Join(op.lines, eol),
         eol         |-> eol,
         versionId   |-> -1,
         isUndoing   |-> s.undoing,
         isRedoing   |-> s.redoing])]

DeletingLinesCnt(op) == op.range.endLineNumber - op.range.startLineNumber
InsertingLinesCnt(op) == IF Len(op.lines) > 0 THEN Len(op.lines) - 1 ELSE 0
EditingLinesCnt(op) == Min2(DeletingLinesCnt(op), InsertingLinesCnt(op))

\* The two structural branches of the loop body.
MustDeleteLines(s, op) ==
    IF EditingLinesCnt(op) < DeletingLinesCnt(op)
    THEN DeleteLines(s, op, EditingLinesCnt(op)) ELSE s

MustInsertLines(s, op) ==
    IF EditingLinesCnt(op) < InsertingLinesCnt(op)
    THEN InsertLines(s, op, EditingLinesCnt(op), InsertingLinesCnt(op)) ELSE s

\* The body of the loop of _applyEdits for one operation.
ApplyOperation(s, op, eol) ==
    IF IsNoOp(op) THEN Logged(s, "operation", 0, 0, op.range, <<>>, <<>>)
    ELSE PushContentChanged2(
             MustInsertLines(
                 MustDeleteLines(
                     QueueOverlapEdits(
                         [Logged(s, "operation", 0, 0, op.range, <<>>,
                                 getValueInRange(s.L, eol, op.range))
                             EXCEPT !.delta = @ + (InsertingLinesCnt(op) - DeletingLinesCnt(op))],
                         op, EditingLinesCnt(op)),
                     op),
                 op),
             op, eol)

\* The loop of _applyEdits over the descending operations, from index i.
RECURSIVE ApplyOperationsFrom(_, _, _, _)
ApplyOperationsFrom(s, operations, i, eol) ==
    IF i > Len(operations) THEN s
    ELSE ApplyOperationsFrom(ApplyOperation(s, operations[i], eol), operations, i + 1, eol)

\* The renumbering pass: updateLineNumber on lines from..to.
RenumberLines(L, from, to) ==
    [i \in 1..Len(L) |-> IF from <= i /\ i <= to THEN LineUpdateLineNumber(L[i], i) ELSE L[i]]

\* The renumbering pass without "must update line numbers all the way to
\* the bottom".
RenumberTouched(s, operations) ==
    [s EXCEPT !.L = RenumberLines(@,
        operations[Len(operations)].range.startLineNumber,
        Max2(1, Min2(getLineCount(s.L), operations[1].range.endLineNumber + 1 + s.delta)))]

\* The renumbering pass begun at the start line of the operation taken
\* first, the last one in the document.
RenumberFromLastOperation(s, operations) ==
    LET minTouchedLineNumber == operations[1].range.startLineNumber
        maxTouchedLineNumber ==
            IF s.delta # 0 THEN getLineCount(s.L)
            ELSE Max2(1, Min2(getLineCount(s.L),
                              operations[1].range.endLineNumber + 1 + s.delta))
    IN  [Logged(s, "renumber", minTouchedLineNumber, maxTouchedLineNumber, NoRange, <<>>, <<>>)
            EXCEPT !.L = RenumberLines(@, minTouchedLineNumber, maxTouchedLineNumber)]

\* The renumbering pass of _applyEdits, from the smallest start line to
\* maxTouchedLineNumber (the end of the buffer when the line count changed).
Renumber(s, operations) ==
    LET minTouchedLineNumber == operations[Len(operations)].range.startLineNumber
        maxTouchedLineNumber ==
            IF s.delta # 0 THEN getLineCount(s.L)
            ELSE Max2(1, Min2(getLineCount(s.L),
                              operations[1].range.endLineNumber + 1 + s.delta))
    IN  [Logged(s, "renumber", minTouchedLineNumber, maxTouchedLineNumber, NoRange, <<>>, <<>>)
            EXCEPT !.L = RenumberLines(@, minTouchedLineNumber, maxTouchedLineNumber)]

\* "Fabricate a fake line changed event to get an event out"
FabricateEvent(s, minTouchedLineNumber) ==
    IF Len(s.fine) = 0 /\ Len(s.coarse) # 0
    THEN PushLineChanged(s, minTouchedLineNumber)
    ELSE s

\* The version bumps counted from the fine-grained events alone.
FineBumps(s) == Len(s.fine)

\* The version bumps counted from the coarse-grained events alone.
CoarseBumps(s) == Len(s.coarse)

\* versionBumps = Math.max(contentChangedEvents.length, contentChanged2Events.length)
VersionBumps(s) == Max2(Len(s.fine), Len(s.coarse))

\* The stamping loops run from the first event on: the first event gets
\* finalVersionId, the one after it finalVersionId - 1, and so on.
StampVersionsForward(events, finalVersionId) ==
    [i \in 1..Len(events) |->
        [events[i] EXCEPT !.versionId = finalVersionId - (i - 1)]]

\* The stamping loops: the last event gets finalVersionId, the one before
\* it finalVersionId - 1, and so on.
StampVersions(events, finalVersionId) ==
    [i \in 1..Len(events) |->
        [events[i] EXCEPT !.versionId = finalVersionId - (Len(events) - i)]]

\* The end of the callback: if there is any event the version id is
\* advanced by versionBumps and the events are stamped and emitted, the
\* fine-grained ones first.
Commit(s, version) ==
    [outcome   |-> "ok", error |-> "",
     L         |-> s.L, mk |-> s.mk, nextOid |-> s.nextOid,
     versionId |-> version + VersionBumps(s),
     fine      |-> StampVersions(s.fine, version + VersionBumps(s)),
     coarse    |-> StampVersions(s.coarse, version + VersionBumps(s)),
     inverse   |-> <<>>, log |-> s.log]

Rejected(L, mk, oid, version, error) ==
    [outcome |-> "throw", error |-> error, L |-> L, mk |-> mk, nextOid |-> oid,
     versionId |-> version, fine |-> <<>>, coarse |-> <<>>, inverse |-> <<>>, log |-> <<>>]

\* The callback of _applyEdits on the descending operations.
SpliceAll(s, operations, eol, version) ==
    Commit(FabricateEvent(Renumber(flushLineEdits(ApplyOperationsFrom(s, operations, 1, eol)),
                                   operations),
                          operations[Len(operations)].range.startLineNumber),
           version)

\* _applyEdits without "Note the minus!": the operations are spliced from
\* the first in the document to the last.
applyEditsInnerAscending(L, mk, oid, version, eol, operations, undoing, redoing) ==
    IF Len(operations) = 0
    THEN Rejected(L, mk, oid, version, "TypeError")
    ELSE SpliceAll(SpliceStart(L, mk, oid, undoing, redoing),
                   SortOperations(operations, 1), eol, version)

\* _applyEdits(operations): sort descending, splice, renumber, stamp and
\* emit.  Returns the new line array, marker index and version id and the
\* events emitted, in emission order.  With no operation at all the read
\* of operations[operations.length - 1].range throws a TypeError before
\* anything is touched.
applyEditsInner(L, mk, oid, version, eol, operations, undoing, redoing) ==
    IF Len(operations) = 0
    THEN Rejected(L, mk, oid, version, "TypeError")
    ELSE SpliceAll(SpliceStart(L, mk, oid, undoing, redoing),
                   SortOperations(operations, -1), eol, version)

\* The reverseOperations loop with every identifier read from the first
\* operation.
ReverseOperationsFirstId(L, eol, operations, reverseRanges) ==
    [i \in 1..Len(operations) |->
        [identifier       |-> operations[1].identifier,
         range            |-> reverseRanges[i],
         text             |-> getValueInRange(L, eol, operations[i].range),
         forceMoveMarkers |-> operations[i].forceMoveMarkers]]

\* The reverseOperations loop of applyEdits.
ReverseOperations(L, eol, operations, reverseRanges) ==
    [i \in 1..Len(operations) |->
        [identifier       |-> operations[i].identifier,
         range            |-> reverseRanges[i],
         text             |-> getValueInRange(L, eol, operations[i].range),
         forceMoveMarkers |-> operations[i].forceMoveMarkers]]

\* return reverseOperations, when _applyEdits returned.
Returning(r, reverseOperations) ==
    IF r.outcome = "ok" THEN [r EXCEPT !.inverse = reverseOperations] ELSE r

\* applyEdits from the editable-range check on.  The call of
\* getEditableRange() is the first place of applyEdits that reads
\* _isDisposed.
applyEditsChecked(L, mk, hasRange, oid, version, eol, operations, undoing, redoing, disposed) ==
    IF getEditableRangeThrows(disposed)
    THEN Rejected(L, mk, oid, version, "EditableTextModel.getEditableRange: Model is disposed")
    ELSE IF OutsideEditableRange(getEditableRange(L, mk, hasRange), operations)
    THEN Rejected(L, mk, oid, version, "Editing outside of editable range not allowed!")
    ELSE Returning(applyEditsInner(L, mk, oid, version, eol, operations, undoing, redoing),
                   ReverseOperations(L, eol, operations,
                                     getInverseEditRanges(toDeltaOperations(operations))))

\* applyEdits with the reducer run before the overlap check.
applyEditsSortedReduceFirst(L, mk, hasRange, oid, version, eol, sorted, undoing, redoing, disposed) ==
    IF HasOverlap(reduceOperations(L, eol, sorted))
    THEN Rejected(L, mk, oid, version, "Overlapping ranges are not allowed!")
    ELSE applyEditsChecked(L, mk, hasRange, oid, version, eol,
                           reduceOperations(L, eol, sorted), undoing, redoing, disposed)

\* applyEdits from the overlap check on, `sorted` being the validated
\* operations in ascending order.
applyEditsSorted(L, mk, hasRange, oid, version, eol, sorted, undoing, redoing, disposed) ==
    IF HasOverlap(sorted)
    THEN Rejected(L, mk, oid, version, "Overlapping ranges are not allowed!")
    ELSE applyEditsChecked(L, mk, hasRange, oid, version, eol,
                           reduceOperations(L, eol, sorted), undoing, redoing, disposed)

\* applyEdits(rawOperations): what the call leaves behind and returns.
applyEdits(L, mk, hasRange, oid, version, eol, rawOperations, undoing, redoing, disposed) ==
    applyEditsSorted(L, mk, hasRange, oid, version, eol,
                     SortOperations(ValidateOperations(L, eol, rawOperations), 1),
                     undoing, redoing, disposed)

(* ---------------- The buffer as a state machine ------------------------ *)

VARIABLES
    lines,              \* _lines
    markerIdToMarker,   \* _markerIdToMarker
    versionId,          \* the version id of the buffer
    hasEditableRange,   \* _hasEditableRange (the range's markers are EditStartId, EditEndId)
    EOL,                \* _EOL
    isUndoing,          \* _isUndoing
    isRedoing,          \* _isRedoing
    nextOid,            \* the identity the next new ModelLine gets
    last,               \* record of the last call: its input, the state before it, its outcome
    work,               \* input budget used so far
    isDisposed,         \* _isDisposed
    commandManager,     \* _commandManager, the EditStack
    stack,              \* the applyEdits calls in progress, innermost last
    widget              \* the SuggestWidget of the editor that shows the buffer

vars == <<lines, markerIdToMarker, versionId, hasEditableRange, EOL, isUndoing, isRedoing,
          nextOid, last, work, isDisposed, commandManager, stack, widget>>

\* Bounds of the exploration.
MaxOps == 2         \* operations per batch chosen freely
MaxWork == 12       \* budget of the freely chosen operations, see OpCost
MaxReplays == 2     \* calls that hand the last returned inverse operations back

\* The texts the buffer is constructed with, and their line ending.
InitModels ==
    { [texts |-> << <<"a", "b", "c">>, <<"d", "e", "f">>, <<"g", "h", "i">> >>, eol |-> <<LF>>],
      [texts |-> << <<"a">>, <<"b">> >>,                                        eol |-> <<CR, LF>>],
      [texts |-> << <<"a", "b">> >>,                                            eol |-> <<LF>>],
      [texts |-> << Array([i \in 1..(ReduceThreshold - 1) |-> "a"]) >>,         eol |-> <<LF>>] }

\* The replacement texts of the operations tried.
Texts == { <<>>, <<"X">>, <<"X", CR, LF, "Y">>, <<LF, "Y">> }

\* new EditStack(model): nothing to undo, nothing to redo, no open stack
\* element.  An element is the sequence of the batches of inverse
\* operations of the edits grouped in it.
NewEditStack == [null |-> FALSE, past |-> <<>>, future |-> <<>>, open |-> FALSE]

\* _commandManager = null
NullEditStack == [null |-> TRUE, past |-> <<>>, future |-> <<>>, open |-> FALSE]

\* The state a call's record keeps of the model before the call.
Before ==
    [L |-> lines, mk |-> markerIdToMarker, versionId |-> versionId,
     hasEditableRange |-> hasEditableRange, isDisposed |-> isDisposed,
     commandManager |-> commandManager, isUndoing |-> isUndoing, isRedoing |-> isRedoing]

NoCall ==
    [call |-> "none", outcome |-> "none", error |-> "", raw |-> <<>>,
     pre |-> [L |-> <<>>, mk |-> <<>>, versionId |-> 0, hasEditableRange |-> FALSE,
              isDisposed |-> FALSE, commandManager |-> NewEditStack,
              isUndoing |-> FALSE, isRedoing |-> FALSE],
     origin |-> <<>>, replays |-> 0, inverse |-> <<>>, fine |-> <<>>, coarse |-> <<>>,
     result |-> <<>>]

\* The SuggestWidget after its constructor: setState(State.Hidden), no
\* timer armed, nothing in the list.  `timers` are the armed timers of the
\* window and `armed` counts the timers ever armed; `awaiting`, `event`,
\* `from`, `result` and `cancelled` record the history the properties
\* speak about: whether a manual trigger handled in the Hidden state is
\* still unanswered, and the last handler run, the state it started in,
\* what it returned and whether it called model.cancel().
NoCompletionModel == [raw |-> 0, items |-> <<>>]
NewWidget ==
    [state |-> "Hidden", isAuto |-> FALSE, shouldShowEmptySuggestionList |-> FALSE,
     loadingTimeout |-> 0, timers |-> {}, armed |-> 0,
     completionModel |-> NoCompletionModel, list |-> <<>>, focus |-> 0,
     awaiting |-> FALSE, event |-> "none", from |-> "Hidden", result |-> "none",
     cancelled |-> FALSE]

Init ==
    \E m \in InitModels :
        /\ lines = [i \in 1..Len(m.texts) |-> NewLine(i, i, m.texts[i])]
        /\ nextOid = Len(m.texts) + 1
        /\ EOL = m.eol
        /\ markerIdToMarker = <<>>
        /\ versionId = 1
        /\ hasEditableRange = FALSE
        /\ isUndoing = FALSE
        /\ isRedoing = FALSE
        /\ last = NoCall
        /\ work = 0
        /\ isDisposed = FALSE
        /\ commandManager = NewEditStack
        /\ stack = <<>>
        /\ widget = NewWidget

\* The positions of the buffer and the ranges between two of them, start
\* not after end, plus one range that reaches outside the columns of the
\* buffer (validateRange clamps it to the whole buffer).
Positions(L) == UNION {{Pos(l, c) : c \in 1..(Len(L[l].text) + 1)} : l \in 1..Len(L)}

NumPositions(L) == Cardinality(Positions(L))

Ranges(L) ==
    {MkRange(p.lineNumber, p.column, q.lineNumber, q.column) :
        <<p, q>> \in {pq \in Positions(L) \X Positions(L) : isBeforeOrEqual(pq[1], pq[2])}}
    \cup {MkRange(1, 0, Len(L), Len(L[Len(L)].text) + 2)}

\* What one freely chosen operation takes from the budget: the number of
\* positions of the buffer it is chosen on, and at least the MaxOps-th part
\* of the budget.
OpCost(L) == Max2(NumPositions(L), MaxWork \div MaxOps)

\* A raw batch: operation i has identifier i, range and text choice[i], and
\* the batch's forceMoveMarkers flag.
RawBatch(k, choice, forceMoveMarkers) ==
    [i \in 1..k |-> [identifier       |-> i,
                     range            |-> choice[i][1],
                     text             |-> choice[i][2],
                     forceMoveMarkers |-> forceMoveMarkers]]

\* ReduceThreshold single-character insertions at consecutive columns of
\* line 1.
BulkBatch ==
    Array([i \in 1..ReduceThreshold |-> [identifier       |-> i,
                                         range            |-> MkRange(1, i, 1, i),
                                         text             |-> <<"X">>,
                                         forceMoveMarkers |-> FALSE]])

\* A call of applyEdits(raw): the buffer is left as the call leaves it and
\* `last` records the call.
Call(raw, kind, replays) ==
    \E r \in {applyEdits(lines, markerIdToMarker, hasEditableRange, nextOid, versionId, EOL,
                          raw, isUndoing, isRedoing, isDisposed)} :
        /\ lines' = r.L
        /\ markerIdToMarker' = r.mk
        /\ nextOid' = r.nextOid
        /\ versionId' = r.versionId
        /\ last' = [call |-> kind, outcome |-> r.outcome, error |-> r.error, raw |-> raw,
                    pre |-> Before,
                    origin |-> IF kind = "inverse" THEN LineTexts(last.pre.L) ELSE <<>>,
                    replays |-> replays,
                    inverse |-> r.inverse, fine |-> r.fine, coarse |-> r.coarse,
                    result |-> <<>>]
        /\ UNCHANGED <<hasEditableRange, EOL, widget, isUndoing, isRedoing, isDisposed, commandManager,
                       stack>>

\* The values tried for forceMoveMarkers: the flag is read only by split
\* and by the markers adjuster, so it is varied when the buffer has markers.
MoveFlags(mk) == IF DOMAIN mk = {} THEN {FALSE} ELSE BOOLEAN

\* applyEdits with a batch of up to MaxOps operations on the buffer.
ApplyEdits ==
    \E k \in 0..MaxOps :
        /\ work + Max2(1, k) * OpCost(lines) <= MaxWork
        /\ \E choice \in [1..k -> Ranges(lines) \X Texts],
              forceMoveMarkers \in MoveFlags(markerIdToMarker) :
               Call(RawBatch(k, choice, forceMoveMarkers), "edit", 0)
        /\ work' = work + Max2(1, k) * OpCost(lines)

\* The batches of ReduceThreshold operations tried: BulkBatch, the same
\* insertions handed over from the last column to the first, and those
\* with the insertion at column 1 moved to column 2, where another one is.
BulkBatches ==
    LET reversed == Array([i \in 1..ReduceThreshold |->
                             [BulkBatch[i] EXCEPT !.range = BulkBatch[ReduceThreshold + 1 - i].range]])
    IN  {BulkBatch, reversed, [reversed EXCEPT ![ReduceThreshold].range = MkRange(1, 2, 1, 2)]}

\* applyEdits with a batch of ReduceThreshold operations.
ApplyBulkEdits ==
    /\ work = 0
    /\ Len(lines[1].text) >= ReduceThreshold - 1
    /\ \E batch \in BulkBatches : Call(batch, "edit", 0)
    /\ work' = MaxWork

\* applyEdits with the inverse operations the last call returned, as the
\* command stack does on undo and redo.
ApplyInverse ==
    /\ last.outcome = "ok"
    /\ last.replays < MaxReplays
    /\ Call(last.inverse, "inverse", last.replays + 1)
    /\ UNCHANGED work

\* The ranges tried as editable range: each whole line, and the whole
\* buffer.
EditableRanges(L) ==
    {MkRange(l, 1, l, getLineMaxColumn(L, l)) : l \in 1..Len(L)} \cup {getFullModelRange(L)}

\* A removal that leaves the markers of the range where they are.
KeepEditableMarkers(L) == L

\* removeTrackedRange(_editableRangeId): its two markers leave their Lines
\* and the marker index.
RemoveEditableMarkers(L) ==
    [i \in 1..Len(L) |-> [L[i] EXCEPT !.markers = @ \ {EditStartId, EditEndId}]]

\* addTrackedRange(range, AlwaysGrowsWhenTypingAtEdges): a start marker
\* that sticks to the previous character and an end marker that does not.
AddEditableMarkers(L, range) ==
    [i \in 1..Len(L) |->
        [L[i] EXCEPT !.markers = @ \cup (IF i = range.startLineNumber THEN {EditStartId} ELSE {})
                                   \cup (IF i = range.endLineNumber THEN {EditEndId} ELSE {})]]

EditableMarkers(L, range) ==
    [editStart |-> [line |-> L[range.startLineNumber].oid, column |-> range.startColumn,
                    stick |-> TRUE],
     editEnd   |-> [line |-> L[range.endLineNumber].oid, column |-> range.endColumn,
                    stick |-> FALSE]]

\* The marker index without the two markers of the editable range.
OtherMarkers(mk) == [m \in DOMAIN mk \ {EditStartId, EditEndId} |-> mk[m]]

\* EditStack.clear()
EditStackClear(cm) == [cm EXCEPT !.past = <<>>, !.future = <<>>, !.open = FALSE]

\* setEditableRange(range), before the first edit.
SetEditableRange(range) ==
    /\ last.call = "none"
    /\ ~isDisposed
    /\ commandManager' = EditStackClear(commandManager)
    /\ LET validated == validateRange(lines, range)
       IN  /\ lines' = AddEditableMarkers(RemoveEditableMarkers(lines), validated)
           /\ markerIdToMarker' = EditableMarkers(lines, validated) @@ OtherMarkers(markerIdToMarker)
    /\ hasEditableRange' = TRUE
    /\ UNCHANGED <<versionId, EOL, widget, isUndoing, isRedoing, nextOid, last, work, isDisposed, stack>>

\* setEditableRange(null), before the first edit.
ClearEditableRange ==
    /\ last.call = "none"
    /\ ~isDisposed
    /\ hasEditableRange
    /\ commandManager' = EditStackClear(commandManager)
    /\ lines' = RemoveEditableMarkers(lines)
    /\ markerIdToMarker' = OtherMarkers(markerIdToMarker)
    /\ hasEditableRange' = FALSE
    /\ UNCHANGED <<versionId, EOL, widget, isUndoing, isRedoing, nextOid, last, work, isDisposed, stack>>

\* The marker an external caller adds, and where: inside the second line
\* of a buffer that has one of at least two characters.
MarkerId == "marker"
MarkerPositions(L) == {Pos(2, 3)} \cap Positions(L)

\* _addMarker(lineNumber, column, stickToPreviousCharacter = false), before
\* the first edit.
AddMarker(position) ==
    /\ last.call = "none"
    /\ MarkerId \notin DOMAIN markerIdToMarker
    /\ lines' = [lines EXCEPT ![position.lineNumber].markers = @ \cup {MarkerId}]
    /\ markerIdToMarker' =
           (MarkerId :> [line |-> lines[position.lineNumber].oid,
                         column |-> position.column, stick |-> FALSE])
           @@ markerIdToMarker
    /\ UNCHANGED <<versionId, hasEditableRange, EOL, widget, isUndoing, isRedoing, nextOid, last, work,
                   isDisposed, commandManager, stack>>

Next ==
    \/ ApplyEdits
    \/ ApplyBulkEdits
    \/ ApplyInverse
    \/ \E range \in EditableRanges(lines) : SetEditableRange(range)
    \/ ClearEditableRange
    \/ \E position \in MarkerPositions(lines) : AddMarker(position)

Spec == Init /\ [][Next]_vars

(* ---------------- The public operations, with the command stack -------- *)

\* The record of a call that is no applyEdits call.
Recorded(kind, outcome, error, argument, result) ==
    [call |-> kind, outcome |-> outcome, error |-> error, raw |-> argument, pre |-> Before,
     origin |-> <<>>, replays |-> last.replays, inverse |-> <<>>, fine |-> <<>>,
     coarse |-> <<>>, result |-> result]

\* if (this._isDisposed) { throw new Error('EditableTextModel.<method>:
\* Model is disposed'); }: the call throws and nothing else happens.
ThrowDisposed(kind, argument) ==
    /\ isDisposed
    /\ last' = Recorded(kind, "throw", "Model is disposed", argument, <<>>)
    /\ UNCHANGED <<lines, markerIdToMarker, versionId, hasEditableRange, EOL, widget, isUndoing,
                   isRedoing, nextOid, work, isDisposed, commandManager, stack>>

\* dispose(): the command stack is dropped and the base classes mark the
\* model disposed.
Dispose ==
    /\ ~isDisposed
    /\ commandManager' = NullEditStack
    /\ isDisposed' = TRUE
    /\ last' = Recorded("dispose", "ok", "", <<>>, <<>>)
    /\ UNCHANGED <<lines, markerIdToMarker, versionId, hasEditableRange, EOL, widget, isUndoing,
                   isRedoing, nextOid, work, stack>>

\* EditStack.pushStackElement(): the open element, if any, is closed.
EditStackPushStackElement(cm) == [cm EXCEPT !.open = FALSE]

\* pushStackElement()
PushStackElement ==
    \/ ThrowDisposed("pushStackElement", <<>>)
    \/ /\ ~isDisposed
       /\ commandManager' = EditStackPushStackElement(commandManager)
       /\ last' = Recorded("pushStackElement", "ok", "", <<>>, <<>>)
       /\ UNCHANGED <<lines, markerIdToMarker, versionId, hasEditableRange, EOL, widget, isUndoing,
                      isRedoing, nextOid, work, isDisposed, stack>>

\* EditStack.pushEditOperation after model.applyEdits returned `inverse`:
\* nothing is left to redo and the inverse operations join the open
\* element, which is opened if there is none.
EditStackRecord(cm, inverse) ==
    [cm EXCEPT !.future = <<>>,
               !.open   = TRUE,
               !.past   = IF cm.open
                          THEN [@ EXCEPT ![Len(@)] = Append(@, inverse)]
                          ELSE Append(@, <<inverse>>)]

\* The operations the command stack is handed, the operations handed to
\* applyEdits next to it, and what one of them is charged.
ApiRanges(L) ==
    {MkRange(1, 1, 1, getLineMaxColumn(L, 1)), MkRange(1, 1, 1, 1), getFullModelRange(L)}
ApiTexts == { <<>>, <<"X">> }
ApiBatches(L, mk) ==
    {RawBatch(1, <<choice>>, forceMoveMarkers) :
        choice \in ApiRanges(L) \X ApiTexts, forceMoveMarkers \in MoveFlags(mk)}
ApiCost == MaxWork \div MaxOps
CanEdit == NumPositions(lines) <= MaxWork /\ work + ApiCost <= MaxWork

\* applyEdits(raw), called next to the command stack.
ApplyEditsCall ==
    /\ CanEdit
    /\ \E raw \in ApiBatches(lines, markerIdToMarker) : Call(raw, "edit", last.replays)
    /\ work' = work + ApiCost

\* pushEditOperations(beforeCursorState, editOperations, cursorStateComputer)
PushEditOperations ==
    \/ /\ CanEdit
       /\ \E raw \in ApiBatches(lines, markerIdToMarker) : ThrowDisposed("push", raw)
    \/ /\ ~isDisposed
       /\ CanEdit
       /\ \E raw \in ApiBatches(lines, markerIdToMarker) :
            \E r \in {applyEdits(lines, markerIdToMarker, hasEditableRange, nextOid, versionId,
                                 EOL, raw, isUndoing, isRedoing, isDisposed)} :
                /\ lines' = r.L
                /\ markerIdToMarker' = r.mk
                /\ nextOid' = r.nextOid
                /\ versionId' = r.versionId
                /\ commandManager' = IF r.outcome = "ok"
                                     THEN EditStackRecord(commandManager, r.inverse)
                                     ELSE commandManager
                /\ last' = [Recorded("push", r.outcome, r.error, raw, <<>>)
                               EXCEPT !.inverse = r.inverse, !.fine = r.fine, !.coarse = r.coarse]
       /\ work' = work + ApiCost
       /\ UNCHANGED <<hasEditableRange, EOL, widget, isUndoing, isRedoing, isDisposed, stack>>

\* The command stack replays the batches of a stack element through
\* model.applyEdits, in the order `order` of their indices, and keeps what
\* each call returns in the batch's place.  The replay ends at the first
\* call that throws; the stack then forgets its history and returns null
\* instead of a result, so that no exception leaves EditStack.undo or
\* EditStack.redo.
ReplayStart(L, mk, oid, version, batches) ==
    [outcome |-> "ok", error |-> "", L |-> L, mk |-> mk, nextOid |-> oid,
     versionId |-> version, fine |-> <<>>, coarse |-> <<>>, batches |-> batches]

ReplayOne(st, i, hasRange, eol, undoing, redoing) ==
    LET r == applyEdits(st.L, st.mk, hasRange, st.nextOid, st.versionId, eol,
                        st.batches[i], undoing, redoing, FALSE)
    IN  [outcome |-> r.outcome, error |-> r.error, L |-> r.L, mk |-> r.mk,
         nextOid |-> r.nextOid, versionId |-> r.versionId,
         fine |-> st.fine \o r.fine, coarse |-> st.coarse \o r.coarse,
         batches |-> IF r.outcome = "ok" THEN [st.batches EXCEPT ![i] = r.inverse]
                     ELSE st.batches]

RECURSIVE Replay(_, _, _, _, _, _)
Replay(st, order, hasRange, eol, undoing, redoing) ==
    IF Len(order) = 0 \/ st.outcome # "ok" THEN st
    ELSE Replay(ReplayOne(st, Head(order), hasRange, eol, undoing, redoing),
                Tail(order), hasRange, eol, undoing, redoing)

Descending(n) == [i \in 1..n |-> n + 1 - i]
Ascending(n) == [i \in 1..n |-> i]

\* The replay of undo() or redo(): the element popped from one side is
\* replayed and, when no call threw, pushed on the other side, `side`, of
\* the stack cm it was popped from.
\* The events of the replayed calls carry the flags of the replay.
Replayed(kind, element, order, cm, side, undoing, redoing) ==
    \E st \in {Replay(ReplayStart(lines, markerIdToMarker, nextOid, versionId, element),
                      order, hasEditableRange, EOL, undoing, redoing)} :
        /\ lines' = st.L
        /\ markerIdToMarker' = st.mk
        /\ nextOid' = st.nextOid
        /\ versionId' = st.versionId
        /\ commandManager' = IF st.outcome = "ok"
                             THEN [cm EXCEPT ![side] = Append(@, st.batches)]
                             ELSE EditStackClear(cm)
        /\ last' = [Recorded(kind, "ok", st.error, <<>>,
                             IF st.outcome = "ok" THEN <<"selections">> ELSE <<"null">>)
                       EXCEPT !.replays = @ + 1, !.fine = st.fine, !.coarse = st.coarse]

\* A call of undo() or redo() that finds nothing to replay returns null.
NothingToReplay(kind, cm) ==
    /\ commandManager' = cm
    /\ last' = Recorded(kind, "ok", "", <<>>, <<"null">>)
    /\ UNCHANGED <<lines, markerIdToMarker, versionId, nextOid>>

\* undo(): _isUndoing is true while the command stack works and false
\* when it has returned.
Undo ==
    \/ ThrowDisposed("undo", <<>>)
    \/ /\ ~isDisposed
       /\ last.replays < MaxReplays
       /\ LET cm   == EditStackPushStackElement(commandManager)
              n    == Len(cm.past)
              rest == [cm EXCEPT !.past = SubSeq(@, 1, n - 1)]
          IN  IF n = 0 THEN NothingToReplay("undo", cm)
              ELSE Replayed("undo", cm.past[n], Descending(Len(cm.past[n])), rest, "future",
                            TRUE, isRedoing)
       /\ isUndoing' = FALSE
       /\ UNCHANGED <<hasEditableRange, EOL, widget, isRedoing, work, isDisposed, stack>>

\* redo(): _isRedoing is true while the command stack works and false when
\* it has returned.
Redo ==
    \/ ThrowDisposed("redo", <<>>)
    \/ /\ ~isDisposed
       /\ last.replays < MaxReplays
       /\ LET cm   == commandManager
              n    == Len(cm.future)
              rest == [cm EXCEPT !.future = SubSeq(@, 1, n - 1)]
          IN  IF n = 0 THEN NothingToReplay("redo", cm)
              ELSE Replayed("redo", cm.future[n], Ascending(Len(cm.future[n])), rest, "past",
                            isUndoing, TRUE)
       /\ isRedoing' = FALSE
       /\ UNCHANGED <<hasEditableRange, EOL, widget, isUndoing, work, isDisposed, stack>>

\* setEditableRange(range) at any time; range = null is argument <<>>.
SetEditableRangeCall(argument) ==
    \/ ThrowDisposed("setEditableRange", argument)
    \/ /\ ~isDisposed
       /\ commandManager' = EditStackClear(commandManager)
       /\ IF Len(argument) = 0
          THEN /\ lines' = IF hasEditableRange THEN RemoveEditableMarkers(lines) ELSE lines
               /\ markerIdToMarker' = IF hasEditableRange THEN OtherMarkers(markerIdToMarker)
                                      ELSE markerIdToMarker
          ELSE LET validated == validateRange(lines, argument[1])
                   removed   == IF hasEditableRange THEN RemoveEditableMarkers(lines) ELSE lines
               IN  /\ lines' = AddEditableMarkers(removed, validated)
                   /\ markerIdToMarker' = EditableMarkers(lines, validated)
                                          @@ OtherMarkers(markerIdToMarker)
       /\ hasEditableRange' = (Len(argument) # 0)
       /\ last' = Recorded("setEditableRange", "ok", "", argument, <<>>)
       /\ UNCHANGED <<versionId, EOL, widget, isUndoing, isRedoing, nextOid, work, isDisposed, stack>>

\* The calls that only read; one is explored after every other call.
Queries == {"hasEditableRange", "getEditableRange"}

\* hasEditableRange()
HasEditableRangeCall ==
    \/ ThrowDisposed("hasEditableRange", <<>>)
    \/ /\ ~isDisposed
       /\ last.call \notin Queries
       /\ last' = Recorded("hasEditableRange", "ok", "", <<>>, <<hasEditableRange>>)
       /\ UNCHANGED <<lines, markerIdToMarker, versionId, hasEditableRange, EOL, widget, isUndoing,
                      isRedoing, nextOid, work, isDisposed, commandManager, stack>>

\* getEditableRange()
GetEditableRangeCall ==
    /\ last.call \notin Queries
    /\ last' = IF getEditableRangeThrows(isDisposed)
               THEN Recorded("getEditableRange", "throw", "Model is disposed", <<>>, <<>>)
               ELSE Recorded("getEditableRange", "ok", "", <<>>,
                             <<getEditableRange(lines, markerIdToMarker, hasEditableRange)>>)
    /\ UNCHANGED <<lines, markerIdToMarker, versionId, hasEditableRange, EOL, widget, isUndoing,
                   isRedoing, nextOid, work, isDisposed, commandManager, stack>>

\* The values a buffer is reset to.
ResetValues == { << <<"x", "y">> >> }

\* _resetValue(e, newValue): the base classes replace the lines by those of
\* newValue, without any marker, and advance the version id; then the edit
\* history and the editable range are dropped.
ResetValue ==
    /\ ~isDisposed
    /\ work + ApiCost <= MaxWork
    /\ \E texts \in ResetValues :
          lines' = [i \in 1..Len(texts) |-> NewLine(nextOid + i - 1, i, texts[i])]
    /\ nextOid' = nextOid + Len(lines')
    /\ markerIdToMarker' = <<>>
    /\ versionId' = versionId + 1
    /\ commandManager' = NewEditStack
    /\ hasEditableRange' = FALSE
    /\ last' = Recorded("resetValue", "ok", "", <<>>, <<>>)
    /\ work' = work + ApiCost
    /\ UNCHANGED <<EOL, widget, isUndoing, isRedoing, isDisposed, stack>>

ApiNext ==
    \/ ApplyEditsCall
    \/ PushEditOperations
    \/ PushStackElement
    \/ Undo
    \/ Redo
    \/ \E argument \in {<<>>} \cup {<<range>> : range \in EditableRanges(lines)} :
          SetEditableRangeCall(argument)
    \/ HasEditableRangeCall
    \/ GetEditableRangeCall
    \/ ResetValue
    \/ Dispose

\* The public operations are explored on the buffers of at most two lines.
ApiInit == Init /\ Len(lines) <= 2 /\ NumPositions(lines) <= MaxWork

ApiSpec == ApiInit /\ [][ApiNext]_vars

(* ---------------- A command stack that raises -------------------------- *)

\* undo() when this._commandManager.undo() raises: _isUndoing has been set
\* and the assignment that resets it is never reached; the error leaves
\* undo() through _withDeferredEvents.  The stack is taken to raise before
\* it has replayed anything.
UndoRaises ==
    /\ ~isDisposed
    /\ last.replays < MaxReplays
    /\ isUndoing' = TRUE
    /\ last' = [Recorded("undo", "throw", "command stack error", <<>>, <<>>)
                   EXCEPT !.replays = @ + 1]
    /\ UNCHANGED <<lines, markerIdToMarker, versionId, hasEditableRange, EOL, widget, isRedoing,
                   nextOid, work, isDisposed, commandManager, stack>>

\* redo() when this._commandManager.redo() raises.
RedoRaises ==
    /\ ~isDisposed
    /\ last.replays < MaxReplays
    /\ isRedoing' = TRUE
    /\ last' = [Recorded("redo", "throw", "command stack error", <<>>, <<>>)
                   EXCEPT !.replays = @ + 1]
    /\ UNCHANGED <<lines, markerIdToMarker, versionId, hasEditableRange, EOL, widget, isUndoing,
                   nextOid, work, isDisposed, commandManager, stack>>

\* The public operations with a command stack that may raise.
RaisingNext ==
    \/ ApplyEditsCall
    \/ PushEditOperations
    \/ PushStackElement
    \/ Undo
    \/ Redo
    \/ UndoRaises
    \/ RedoRaises
    \/ \E argument \in {<<>>} \cup {<<range>> : range \in EditableRanges(lines)} :
          SetEditableRangeCall(argument)
    \/ HasEditableRangeCall
    \/ GetEditableRangeCall
    \/ ResetValue
    \/ Dispose

RaisingSpec == ApiInit /\ [][RaisingNext]_vars

(* ---------------- The suggest widget ------------------------------------ *)

\* Timers armed in one exploration.
MaxTimers == 3

bufferVars == <<lines, markerIdToMarker, versionId, hasEditableRange, EOL, isUndoing,
                isRedoing, nextOid, last, work, isDisposed, commandManager, stack>>

\* The lists of suggestions an event can carry, as they are filtered by
\* the event's current word: each item is whether it has a
\* documentationLabel.
ItemLists == { <<>>, <<FALSE>>, <<TRUE, FALSE>> }
RawIds == {1, 2}

\* ISuggestEvent: the identity of e.suggestions, the items visible under
\* e.currentWord, e.auto, and the index computeScore likes best.
SuggestEvents ==
    { [suggestions |-> r, items |-> it, auto |-> a, best |-> b] :
        r \in RawIds, it \in ItemLists, a \in BOOLEAN, b \in {1, 2} }

\* What a handler leaves in the record of the last handler run.
Noted(w, kind, result, cancelled) ==
    [w EXCEPT !.event = kind, !.from = widget.state, !.result = result,
              !.cancelled = cancelled]

\* setState(state): leaving for Hidden empties the list.
setState(w, state) ==
    IF state = "Hidden" /\ w.state # "Hidden"
    THEN [w EXCEPT !.state = state, !.list = <<>>, !.focus = 0]
    ELSE [w EXCEPT !.state = state]

\* clearTimeout(this.loadingTimeout): the timer the field names, if it is
\* still armed, is disarmed; the field keeps its value.
clearLoadingTimeout(w) == [w EXCEPT !.timers = @ \ {w.loadingTimeout}]

\* onDidTrigger(e): ignored unless the widget is Hidden; a manual trigger
\* arms the loading timer and stores its handle in loadingTimeout.
onDidTrigger(w, auto) ==
    IF w.state # "Hidden" THEN w
    ELSE IF auto THEN [w EXCEPT !.isAuto = TRUE]
    ELSE [w EXCEPT !.isAuto = FALSE, !.loadingTimeout = w.armed + 1,
                   !.timers = @ \cup {w.armed + 1}, !.armed = @ + 1, !.awaiting = TRUE]

OnDidTrigger ==
    /\ \E auto \in BOOLEAN :
          /\ (widget.state = "Hidden" /\ ~auto) => widget.armed < MaxTimers
          /\ widget' = Noted(onDidTrigger(widget, auto), "onDidTrigger", "none", FALSE)
    /\ UNCHANGED bufferVars

\* The callback of the loading timer: loadingTimeout = null, setState(Loading).
LoadingTimeout ==
    /\ \E h \in widget.timers :
          widget' = Noted(setState([widget EXCEPT !.loadingTimeout = 0, !.timers = @ \ {h}],
                                   "Loading"),
                          "loadingTimeout", "none", FALSE)
    /\ UNCHANGED bufferVars

\* The end of onDidSuggest when the list has items: the list is filled,
\* the best item focused and the widget opened.
ShowItems(w, e) ==
    setState([w EXCEPT !.list = w.completionModel.items,
                       !.focus = Min2(e.best, Len(w.completionModel.items))],
             "Open")

\* The end of onDidSuggest when nothing is visible.
ShowEmpty(w, e) ==
    [setState(w, IF e.auto THEN "Hidden"
                 ELSE IF w.shouldShowEmptySuggestionList THEN "Empty" ELSE "Hidden")
        EXCEPT !.completionModel = NoCompletionModel]

\* onDidSuggest(e)
onDidSuggest(w, e) ==
    IF w.completionModel.raw = e.suggestions
    THEN IF ~e.auto /\ Len(e.items) = 0
         THEN setState(w, IF Len(w.completionModel.items) > 0 THEN "Frozen" ELSE "Empty")
         ELSE IF Len(e.items) = 0
              THEN ShowEmpty([w EXCEPT !.completionModel.items = e.items], e)
              ELSE ShowItems([w EXCEPT !.completionModel.items = e.items], e)
    ELSE IF Len(e.items) = 0
         THEN ShowEmpty([w EXCEPT !.completionModel =
                                     [raw |-> e.suggestions, items |-> e.items]], e)
         ELSE ShowItems([w EXCEPT !.completionModel =
                                     [raw |-> e.suggestions, items |-> e.items]], e)

OnDidSuggest ==
    /\ \E e \in SuggestEvents :
          widget' = Noted([onDidSuggest(clearLoadingTimeout(widget), e)
                              EXCEPT !.awaiting = FALSE],
                          "onDidSuggest", "none", FALSE)
    /\ UNCHANGED bufferVars

\* onDidCancel(e)
onDidCancel(w, retrigger) ==
    IF retrigger THEN clearLoadingTimeout(w)
    ELSE setState(clearLoadingTimeout(w), "Hidden")

OnDidCancel ==
    /\ \E retrigger \in BOOLEAN :
          widget' = Noted([onDidCancel(widget, retrigger) EXCEPT !.awaiting = FALSE],
                          "onDidCancel", "none", FALSE)
    /\ UNCHANGED bufferVars

\* onEditorBlur, 150 ms later, the editor still without focus.
OnEditorBlur ==
    /\ widget' = Noted(setState(widget, "Hidden"), "onEditorBlur", "none", FALSE)
    /\ UNCHANGED bufferVars

\* onModelModeChanged
OnModelModeChanged ==
    /\ \E supports \in BOOLEAN :
          widget' = Noted([widget EXCEPT !.shouldShowEmptySuggestionList = supports],
                          "onModelModeChanged", "none", FALSE)
    /\ UNCHANGED bufferVars

\* selectNextPage, selectNext, selectPreviousPage and selectPrevious: the
\* focus of the list moves, around the ends of the list.
SelectCommands == {"selectNextPage", "selectNext", "selectPreviousPage", "selectPrevious"}

MoveFocus(w, command) ==
    IF Len(w.list) = 0 THEN w
    ELSE IF command \in {"selectNextPage", "selectNext"}
    THEN [w EXCEPT !.focus = (w.focus % Len(w.list)) + 1]
    ELSE [w EXCEPT !.focus = IF w.focus <= 1 THEN Len(w.list) ELSE w.focus - 1]

Select ==
    /\ \E command \in SelectCommands :
          widget' =
              IF widget.state = "Hidden" THEN Noted(widget, command, "false", FALSE)
              ELSE IF widget.state = "Details" THEN Noted(widget, command, "true", FALSE)
              ELSE IF widget.state = "Loading"
              THEN Noted(widget, command, IF widget.isAuto THEN "false" ELSE "true", FALSE)
              ELSE Noted(MoveFocus(widget, command), command, "true", FALSE)
    /\ UNCHANGED bufferVars

\* acceptSelectedSuggestion: with a focused item the list selects it,
\* without one the model is cancelled.
AcceptSelectedSuggestion ==
    /\ widget' =
          IF widget.state = "Hidden"
          THEN Noted(widget, "acceptSelectedSuggestion", "false", FALSE)
          ELSE IF widget.state = "Loading"
          THEN Noted(widget, "acceptSelectedSuggestion",
                     IF widget.isAuto THEN "false" ELSE "true", FALSE)
          ELSE Noted(widget, "acceptSelectedSuggestion", "true", widget.focus = 0)
    /\ UNCHANGED bufferVars

\* toggleDetails without the test for a documentationLabel.
toggleDetailsUndocumented(w) ==
    IF w.state = "Details" THEN setState(w, "Open")
    ELSE IF w.state # "Open" THEN w
    ELSE IF w.focus = 0 THEN w
    ELSE setState(w, "Details")

\* toggleDetails()
toggleDetails(w) ==
    IF w.state = "Details" THEN setState(w, "Open")
    ELSE IF w.state # "Open" THEN w
    ELSE IF w.focus = 0 THEN w
    ELSE IF ~w.list[w.focus] THEN w
    ELSE setState(w, "Details")

ToggleDetails ==
    /\ widget' = Noted(toggleDetails(widget), "toggleDetails", "none", FALSE)
    /\ UNCHANGED bufferVars

\* cancel(): in Details it is toggleDetails(), otherwise model.cancel().
Cancel ==
    /\ widget' = IF widget.state = "Details"
                 THEN Noted(toggleDetails(widget), "cancel", "none", FALSE)
                 ELSE Noted(widget, "cancel", "none", TRUE)
    /\ UNCHANGED bufferVars

\* getPosition()
GetPosition ==
    /\ widget' = Noted(widget, "getPosition",
                       IF widget.state = "Hidden" THEN "null" ELSE "position", FALSE)
    /\ UNCHANGED bufferVars

WidgetNext ==
    \/ OnDidTrigger
    \/ LoadingTimeout
    \/ OnDidSuggest
    \/ OnDidCancel
    \/ OnEditorBlur
    \/ OnModelModeChanged
    \/ Select
    \/ AcceptSelectedSuggestion
    \/ ToggleDetails
    \/ Cancel
    \/ GetPosition

\* The widget of an editor that shows the buffer of one line.
WidgetInit == Init /\ Len(lines) = 1 /\ Len(lines[1].text) = 2

WidgetSpec == WidgetInit /\ [][WidgetNext]_vars

(* ---------------- applyEdits step by step, with listeners -------------- *)
(* An applyEdits call in progress is a record t of `stack`:               *)
(*   raw, pre, oid          the argument, the fields and the next ModelLine *)
(*                          identity when it was called                   *)
(*   operations, i          the operations _applyEdits loops over, in its *)
(*                          descending order, and the index of the next   *)
(*   s                      the state of the callback of _applyEdits      *)
(*   inverse                reverseOperations                             *)
(*   phase                  "splice" up to the renumbering pass, "emit"   *)
(*                          from the version bump on                      *)
(*   fine, coarse           the stamped events handed to emit             *)
(*   delivered              how many of them listeners have received      *)
(*   listening              a listener is running with the last of them   *)
(*   reentered              a listener of this call has called applyEdits *)

Top == stack[Len(stack)]

\* The emit loops with the coarse-grained events sent first.
EmittedCoarseFirst(fine, coarse) == coarse \o fine

\* The two emit loops at the end of the callback: every ModelContentChanged
\* event, then every ModelContentChanged2 event, each in the order it was
\* pushed.
Emitted(fine, coarse) == fine \o coarse

\* The events the call has handed to emit and no listener has received
\* yet: the stamped contentChangedEvents, then the contentChanged2Events.
PendingEarly(t) == SubSeq(t.s.fine \o t.s.coarse, t.delivered + 1, Len(t.s.fine \o t.s.coarse))

Pending(t) ==
    SubSeq(Emitted(t.fine, t.coarse), t.delivered + 1, Len(Emitted(t.fine, t.coarse)))

\* The operations the calls are made with, and what one is charged.
TxRanges(L) ==
    {MkRange(1, 1, 1, 1), MkRange(1, getLineMaxColumn(L, 1), 1, getLineMaxColumn(L, 1)),
     getFullModelRange(L)}
TxTexts == { <<>>, <<"X", CR, LF, "Y">> }
TxBatches(L) ==
    UNION {{RawBatch(k, choice, FALSE) : choice \in [1..k -> TxRanges(L) \X TxTexts]} :
              k \in 1..MaxOps}
TxCost(raw) == Len(raw) * (MaxWork \div (MaxOps + 1))

\* The operations applyEdits hands to _applyEdits, as _applyEdits sorts
\* them.
OperationsOf(L, eol, raw) ==
    SortOperations(
        reduceOperations(L, eol, SortOperations(ValidateOperations(L, eol, raw), 1)), -1)

\* applyEdits(raw) up to the callback of _applyEdits, for a call that is
\* not rejected.  The caller is the code outside, when no call is in
\* progress, or the listener that is running.
TxBegin ==
    /\ IF stack = <<>> THEN TRUE ELSE Top.listening
    /\ Len(stack) < MaxOps
    /\ \E raw \in TxBatches(lines) :
          /\ work + TxCost(raw) <= MaxWork
          /\ work' = work + TxCost(raw)
          /\ \E r \in {applyEdits(lines, markerIdToMarker, hasEditableRange, nextOid, versionId,
                                   EOL, raw, isUndoing, isRedoing, isDisposed)} :
                /\ r.outcome = "ok"
                /\ stack' = Append(
                      [k \in 1..Len(stack) |->
                          IF k = Len(stack) THEN [stack[k] EXCEPT !.reentered = TRUE]
                          ELSE stack[k]],
                      [raw |-> raw, pre |-> Before, oid |-> nextOid,
                       operations |-> OperationsOf(lines, EOL, raw), i |-> 1,
                       s |-> SpliceStart(lines, markerIdToMarker, nextOid, isUndoing, isRedoing),
                       inverse |-> r.inverse, phase |-> "splice",
                       fine |-> <<>>, coarse |-> <<>>, delivered |-> 0,
                       listening |-> FALSE, reentered |-> FALSE])
    /\ UNCHANGED <<lines, markerIdToMarker, versionId, hasEditableRange, EOL, widget, isUndoing,
                   isRedoing, nextOid, last, isDisposed, commandManager>>

\* One turn of the loop of _applyEdits.
TxSplice ==
    /\ stack # <<>>
    /\ Top.phase = "splice" /\ ~Top.listening
    /\ Top.i <= Len(Top.operations)
    /\ \E s \in {ApplyOperation(Top.s, Top.operations[Top.i], EOL)} :
          /\ lines' = s.L
          /\ markerIdToMarker' = s.mk
          /\ nextOid' = s.nextOid
          /\ stack' = [stack EXCEPT ![Len(stack)] = [@ EXCEPT !.s = s, !.i = @ + 1]]
    /\ UNCHANGED <<versionId, hasEditableRange, EOL, widget, isUndoing, isRedoing, last, work,
                   isDisposed, commandManager>>

\* After the loop: flushLineEdits, the renumbering pass, the fabricated
\* event, the version bump and the stamping.
TxFinish ==
    /\ stack # <<>>
    /\ Top.phase = "splice" /\ ~Top.listening
    /\ Top.i > Len(Top.operations)
    /\ \E s \in {FabricateEvent(Renumber(flushLineEdits(Top.s), Top.operations),
                                Top.operations[Len(Top.operations)].range.startLineNumber)} :
          \E c \in {Commit(s, versionId)} :
              /\ lines' = c.L
              /\ markerIdToMarker' = c.mk
              /\ nextOid' = c.nextOid
              /\ versionId' = c.versionId
              /\ stack' = [stack EXCEPT ![Len(stack)] =
                              [@ EXCEPT !.s = s, !.phase = "emit",
                                        !.fine = c.fine, !.coarse = c.coarse]]
    /\ UNCHANGED <<hasEditableRange, EOL, widget, isUndoing, isRedoing, last, work, isDisposed,
                   commandManager>>

\* emit(...): a listener receives the next event and runs.
TxDeliver ==
    /\ stack # <<>>
    /\ ~Top.listening
    /\ Pending(Top) # <<>>
    /\ stack' = [stack EXCEPT ![Len(stack)] =
                    [@ EXCEPT !.listening = TRUE, !.delivered = @ + 1]]
    /\ UNCHANGED <<lines, markerIdToMarker, versionId, hasEditableRange, EOL, widget, isUndoing,
                   isRedoing, nextOid, last, work, isDisposed, commandManager>>

\* The listener returns to emit.
TxListenerReturns ==
    /\ stack # <<>>
    /\ Top.listening
    /\ stack' = [stack EXCEPT ![Len(stack)] = [@ EXCEPT !.listening = FALSE]]
    /\ UNCHANGED <<lines, markerIdToMarker, versionId, hasEditableRange, EOL, widget, isUndoing,
                   isRedoing, nextOid, last, work, isDisposed, commandManager>>

\* applyEdits returns reverseOperations when every event is emitted.
TxReturn ==
    /\ stack # <<>>
    /\ Top.phase = "emit" /\ ~Top.listening
    /\ Pending(Top) = <<>>
    /\ last' = [call |-> "edit", outcome |-> "ok", error |-> "", raw |-> Top.raw,
                pre |-> Top.pre, origin |-> <<>>, replays |-> last.replays,
                inverse |-> Top.inverse, fine |-> Top.fine, coarse |-> Top.coarse,
                result |-> <<>>]
    /\ stack' = SubSeq(stack, 1, Len(stack) - 1)
    /\ UNCHANGED <<lines, markerIdToMarker, versionId, hasEditableRange, EOL, widget, isUndoing,
                   isRedoing, nextOid, work, isDisposed, commandManager>>

TxNext ==
    \/ TxBegin
    \/ TxSplice
    \/ TxFinish
    \/ TxDeliver
    \/ TxListenerReturns
    \/ TxReturn

TxSpec == ApiInit /\ [][TxNext]_vars

(* ======================================================================= *)
(* Properties of the last applyEdits call.                                  *)
(* ======================================================================= *)

\* The last call, its batch as validated against the buffer it was made on.
Called == last.call \in {"edit", "inverse"}
Returned == last.outcome = "ok"
Threw == last.outcome = "throw"
NumOps == Len(last.raw)
ValidatedRanges == Array([i \in 1..NumOps |-> validateRange(last.pre.L, last.raw[i].range)])
ValidatedRange(i) == ValidatedRanges[i]

\* Two ranges share a position: each starts before or at the other's end.
Touch(r1, r2) ==
    /\ isBeforeOrEqual(getStartPosition(r1), getEndPosition(r2))
    /\ isBeforeOrEqual(getStartPosition(r2), getEndPosition(r1))

SomePairTouches ==
    LET range == ValidatedRanges
    IN  \E i, j \in 1..NumOps : i # j /\ Touch(range[i], range[j])

\* Nothing the call could have changed did change, and nothing was emitted.
Untouched ==
    /\ lines = last.pre.L
    /\ markerIdToMarker = last.pre.mk
    /\ versionId = last.pre.versionId
    /\ last.fine = <<>>
    /\ last.coarse = <<>>

\* The editable range of the buffer the last call was made on.
PreEditableRange == getEditableRange(last.pre.L, last.pre.mk, last.pre.hasEditableRange)

Within(r, e) ==
    /\ isBeforeOrEqual(getStartPosition(e), getStartPosition(r))
    /\ isBeforeOrEqual(getEndPosition(r), getEndPosition(e))

AllWithinEditableRange ==
    LET range == ValidatedRanges
    IN  \A i \in 1..NumOps : Within(range[i], PreEditableRange)

\* C1: after applyEdits(ops) and then applyEdits on the inverse operations
\* it returned, the buffer has the line texts it had before the first call.
C1_RoundTrip ==
    last.call = "inverse" => LineTexts(lines) = last.origin

\* A replay that changed the buffer back: the call before it had changed
\* the texts.
C1_Witness ==
    /\ last.call = "inverse"
    /\ Returned
    /\ LineTexts(lines) = last.origin
    /\ LineTexts(last.pre.L) # last.origin
    /\ Len(last.pre.L) # Len(lines)

\* C2: a batch of two or more operations two of whose validated ranges
\* overlap or touch is rejected with the overlap error: lines, markers and
\* version id are as before and no event is emitted.
C2_OverlapRejected ==
    (Called /\ NumOps >= 2 /\ SomePairTouches)
        => (Threw /\ last.error = "Overlapping ranges are not allowed!" /\ Untouched)

\* A rejected batch whose two ranges only touch: the second starts where
\* the first, a non-empty range, ends.
C2_Witness ==
    /\ Called /\ NumOps = 2 /\ Threw
    /\ last.error = "Overlapping ranges are not allowed!"
    /\ getEndPosition(ValidatedRange(1)) = getStartPosition(ValidatedRange(2))
    /\ getStartPosition(ValidatedRange(1)) # getEndPosition(ValidatedRange(1))
    /\ Untouched

\* C3: with an editable range, a non-empty batch without touching ranges
\* is accepted exactly if every operation's range lies within the editable
\* range, boundaries included, and a batch that is not is rejected with
\* lines, markers and version id as before and no event; without an
\* editable range every such batch is accepted.
C3_EditableRange ==
    (Called /\ NumOps >= 1 /\ ~SomePairTouches)
        => /\ Returned <=> (last.pre.hasEditableRange => AllWithinEditableRange)
           /\ ~Returned => (/\ Threw
                            /\ last.error = "Editing outside of editable range not allowed!"
                            /\ Untouched)

\* An accepted operation whose range is the editable range itself, in a
\* buffer that has lines outside the editable range.
C3_Witness ==
    /\ Called /\ Returned /\ NumOps = 1
    /\ last.pre.hasEditableRange
    /\ ValidatedRange(1) = PreEditableRange
    /\ getStartPosition(PreEditableRange) # getEndPosition(PreEditableRange)
    /\ PreEditableRange # getFullModelRange(last.pre.L)
    /\ LineTexts(lines) # LineTexts(last.pre.L)

\* The text of a buffer as one string, its lines joined by LF, and the
\* offset of a position in it.
TextOf(L) == Join(LineTexts(L), <<LF>>)

RECURSIVE LengthBefore(_, _)
LengthBefore(L, lineNumber) ==
    IF lineNumber <= 1 THEN 0
    ELSE LengthBefore(L, lineNumber - 1) + Len(L[lineNumber - 1].text) + 1

Offset(L, p) == LengthBefore(L, p.lineNumber) + p.column - 1

\* A text with its line breaks normalised to `eol`; no text is no text.
Normalised(t, eol) == IF Len(t) = 0 THEN <<>> ELSE Join(SplitLines(t), eol)

RECURSIVE SumOver(_, _, _)
SumOver(f, lo, hi) ==
    IF lo > hi THEN 0
    ELSE IF lo = hi THEN f[lo]
    ELSE SumOver(f, lo, (lo + hi) \div 2) + SumOver(f, (lo + hi) \div 2 + 1, hi)

\* The start and end offsets of the operations of the last batch in the
\* text before the call, and the operations in the order of their starts
\* (a batch without touching ranges has no two equal starts).
StartOffsets ==
    LET range == ValidatedRanges
    IN  Array([i \in 1..NumOps |-> Offset(last.pre.L, getStartPosition(range[i]))])
EndOffsets ==
    LET range == ValidatedRanges
    IN  Array([i \in 1..NumOps |-> Offset(last.pre.L, getEndPosition(range[i]))])
InStartOrder ==
    LET start == StartOffsets
        place == Array([i \in 1..NumOps |->
                     1 + Cardinality({j \in 1..NumOps : start[j] < start[i]})])
    IN  Array([k \in 1..NumOps |-> CHOOSE i \in 1..NumOps : place[i] = k])

\* The text before the call with the range of every operation replaced by
\* its replacement: piece k is the untouched text before the k-th
\* operation followed by its replacement, the last piece the untouched
\* rest.
ExpectedText ==
    LET old   == TextOf(last.pre.L)
        start == StartOffsets
        end   == EndOffsets
        nth   == InStartOrder
        piece == Array([k \in 1..(NumOps + 1) |->
                     IF k = NumOps + 1 THEN SubstringFrom(old, end[nth[NumOps]])
                     ELSE Substring(old, IF k = 1 THEN 0 ELSE end[nth[k - 1]], start[nth[k]])
                          \o Normalised(last.raw[nth[k]].text, <<LF>>)])
    IN  ConcatRange(piece, 1, NumOps + 1)

\* Line breaks inserted minus line breaks deleted, per operation.
LineDeltas ==
    LET range == ValidatedRanges
    IN  Array([i \in 1..NumOps |->
            (IF Len(last.raw[i].text) = 0 THEN 0 ELSE Len(SplitLines(last.raw[i].text)) - 1)
            - (range[i].endLineNumber - range[i].startLineNumber)])

\* C4: after a committed call the text of the buffer is the text before it
\* with each operation's range, read in the buffer before the call,
\* replaced by the operation's text, and the line count is the old one plus
\* the line breaks inserted minus those deleted.
C4_ReplacementSemantics ==
    (Called /\ Returned)
        => /\ TextOf(lines) = ExpectedText
           /\ Len(lines) = Len(last.pre.L) + SumOver(LineDeltas, 1, NumOps)

\* The example: (1,2)-(1,3) of a first line "abc" replaced by "X".
C4_Witness ==
    /\ Called /\ Returned /\ NumOps = 1
    /\ last.pre.L[1].text = <<"a", "b", "c">>
    /\ last.raw[1].range = MkRange(1, 2, 1, 3)
    /\ last.raw[1].text = <<"X">>
    /\ lines[1].text = <<"a", "X", "c">>
    /\ Len(lines) = Len(last.pre.L)
    /\ lines[2].text = <<"d", "e", "f">>

\* The deletion of (1,2)-(3,2) from the buffer "abc", "def", "ghi".
C5_Case ==
    /\ Called /\ Returned /\ NumOps = 1
    /\ LineTexts(last.pre.L) = << <<"a", "b", "c">>, <<"d", "e", "f">>, <<"g", "h", "i">> >>
    /\ last.raw[1].range = MkRange(1, 2, 3, 2)
    /\ last.raw[1].text = <<>>

\* C5 as stated: that deletion leaves the one line "ai".
C5_LeavesAi == C5_Case => LineTexts(lines) = << <<"a", "i">> >>

\* C5: a committed deletion of one range over several lines leaves the lines
\* before it, one line made of the first line's text before the start
\* column and the last line's text from the end column on, and the lines
\* after it; for (1,2)-(3,2) in "abc", "def", "ghi" that is the one line
\* "ahi".
C5_MultiLineDeletion ==
    /\ (Called /\ Returned /\ NumOps = 1 /\ Len(last.raw[1].text) = 0
          /\ ValidatedRange(1).startLineNumber < ValidatedRange(1).endLineNumber)
        => LET range == ValidatedRange(1)
               old   == LineTexts(last.pre.L)
           IN  LineTexts(lines) =
                   SubSeq(old, 1, range.startLineNumber - 1)
                   \o << SubSeq(old[range.startLineNumber], 1, range.startColumn - 1)
                         \o SubSeq(old[range.endLineNumber], range.endColumn,
                                   Len(old[range.endLineNumber])) >>
                   \o SubSeq(old, range.endLineNumber + 1, Len(old))
    /\ C5_Case => LineTexts(lines) = << <<"a", "h", "i">> >>

C5_Witness == C5_Case /\ LineTexts(lines) = << <<"a", "h", "i">> >>

\* C6: the Line at index i of the line array reports line number i.
C6_LineNumbers == \A i \in 1..Len(lines) : lines[i].lineNumber = i

\* A committed batch of two operations, one adding a line and one removing
\* a line, at different lines of the buffer.
C6_Witness ==
    /\ Called /\ Returned /\ NumOps = 2
    /\ Len(lines) = Len(last.pre.L)
    /\ \E i, j \in 1..2 : LineDeltas[i] > 0 /\ LineDeltas[j] < 0
    /\ \E i \in 1..Len(lines) : lines[i].oid # last.pre.L[i].oid
    /\ C6_LineNumbers

\* The Lines that hold marker id.
Holders(id) == {i \in 1..Len(lines) : id \in lines[i].markers}

\* C7: every marker of the index is held by exactly one Line, the one its
\* back-reference names, and the Lines hold as many markers as the index
\* has.
C7_Markers ==
    /\ \A id \in DOMAIN markerIdToMarker :
          /\ Cardinality(Holders(id)) = 1
          /\ \A i \in Holders(id) : lines[i].oid = markerIdToMarker[id].line
    /\ SumOver([i \in 1..Len(lines) |-> Cardinality(lines[i].markers)], 1, Len(lines))
           = Cardinality(DOMAIN markerIdToMarker)

\* A committed deletion over three lines whose middle line held a marker:
\* the marker is now on the line the deletion started on.
C7_Witness ==
    /\ Called /\ Returned /\ NumOps = 1
    /\ ValidatedRange(1).startLineNumber + 2 = ValidatedRange(1).endLineNumber
    /\ Len(lines) = Len(last.pre.L) - 2
    /\ MarkerId \in last.pre.L[ValidatedRange(1).startLineNumber + 1].markers
    /\ MarkerId \in lines[ValidatedRange(1).startLineNumber].markers
    /\ C7_Markers

\* What the k-th operation in start order adds to the length of the text.
GrowthBefore(k) ==
    LET range == ValidatedRanges
        nth   == InStartOrder
    IN  SumOver([m \in 1..NumOps |->
                    Len(Normalised(last.raw[nth[m]].text, <<LF>>))
                    - Len(Normalised(getValueInRange(last.pre.L, <<LF>>, range[nth[m]]), <<LF>>))],
                1, k - 1)

\* Inverse operation k is the inverse of operation i: its text is the text
\* i's range covered before the call, and its range starts, in the buffer
\* after the call, where i's replacement starts and covers that replacement.
Inverts(k, i) ==
    LET inverse == last.inverse[k]
        range   == ValidatedRange(i)
    IN  /\ inverse.text = getValueInRange(last.pre.L, EOL, range)
        /\ getValueInRange(lines, EOL, inverse.range) = Normalised(last.raw[i].text, EOL)
        /\ Len(last.raw[i].text) = 0
              => getStartPosition(inverse.range) = getEndPosition(inverse.range)

\* C8 as stated: every operation of a committed batch has its inverse among
\* the returned operations.
C8_EveryOperationInverted ==
    (Called /\ Returned)
        => \A i \in 1..NumOps : \E k \in 1..Len(last.inverse) : Inverts(k, i)

\* C8: below the collapsing threshold the k-th returned operation is the
\* inverse of the k-th operation in start order and starts where the
\* replacements before it have moved that operation's start; at or above
\* it the one returned operation has the text that the range from the first
\* start to the last end covered and its range covers, after the call, what
\* replaced that text.
C8_InverseOperations ==
    (Called /\ Returned)
        => IF NumOps < ReduceThreshold
           THEN /\ Len(last.inverse) = NumOps
                /\ \A k \in 1..NumOps :
                      /\ Inverts(k, InStartOrder[k])
                      /\ Offset(lines, getStartPosition(last.inverse[k].range))
                             = StartOffsets[InStartOrder[k]] + GrowthBefore(k)
           ELSE LET first == InStartOrder[1]
                    final == InStartOrder[NumOps]
                    old   == TextOf(last.pre.L)
                    new   == TextOf(lines)
                    range == last.inverse[1].range
                IN  /\ Len(last.inverse) = 1
                    /\ Normalised(last.inverse[1].text, <<LF>>)
                           = Substring(old, StartOffsets[first], EndOffsets[final])
                    /\ Offset(lines, getStartPosition(range)) = StartOffsets[first]
                    /\ Len(new) - Offset(lines, getEndPosition(range))
                           = Len(old) - EndOffsets[final]

\* A committed batch of two operations, one that only deletes and one
\* that replaces text by text with a line break.
C8_Witness ==
    /\ Called /\ Returned /\ NumOps = 2
    /\ Len(last.inverse) = 2
    /\ \E i, j \in 1..2 :
          /\ Len(last.raw[i].text) = 0
          /\ ValidatedRange(i).startColumn # ValidatedRange(i).endColumn
          /\ Len(last.raw[j].text) > 1
          /\ ValidatedRange(j).startColumn # ValidatedRange(j).endColumn
    /\ \A k \in 1..2 : Inverts(k, InStartOrder[k])

\* C9 as stated: one returned operation per operation of the batch, with
\* that operation's identifier, whatever the size of the batch.
C9_OnePerOperation ==
    (Called /\ Returned)
        => /\ Len(last.inverse) = NumOps
           /\ \A i \in 1..NumOps :
                 Cardinality({k \in 1..Len(last.inverse) :
                                 last.inverse[k].identifier = last.raw[i].identifier}) = 1

\* C9: a committed batch of fewer than ReduceThreshold operations returns
\* one operation per operation, the k-th with the identifier of the k-th
\* operation in start order; a larger one returns one operation, with the
\* identifier of the operation that starts first.
C9_InversePerProcessedOperation ==
    (Called /\ Returned)
        => IF NumOps < ReduceThreshold
           THEN /\ Len(last.inverse) = NumOps
                /\ \A k \in 1..NumOps :
                      last.inverse[k].identifier = last.raw[InStartOrder[k]].identifier
           ELSE /\ Len(last.inverse) = 1
                /\ last.inverse[1].identifier = last.raw[InStartOrder[1]].identifier

\* The committed batch of ReduceThreshold operations and its one inverse.
C9_Witness ==
    /\ Called /\ Returned
    /\ NumOps = ReduceThreshold
    /\ Len(last.inverse) = 1
    /\ Len(lines[1].text) = 2 * ReduceThreshold - 1

\* The version ids stamped on the events of the last call.
StampedIds ==
    {last.fine[i].versionId : i \in 1..Len(last.fine)}
    \cup {last.coarse[i].versionId : i \in 1..Len(last.coarse)}

AllNoOps ==
    /\ NumOps >= 1
    /\ \A i \in 1..NumOps :
          /\ getStartPosition(ValidatedRange(i)) = getEndPosition(ValidatedRange(i))
          /\ Len(last.raw[i].text) = 0

\* C11: a committed batch of only no-ops emits exactly one line-changed
\* event, no other event, and advances the version id by one.
C11_NoOpBatchEmitsOne ==
    (Called /\ Returned /\ AllNoOps)
        => /\ Len(last.fine) = 1
           /\ last.fine[1].changeType = "lineChanged"
           /\ versionId = last.pre.versionId + 1

\* C12: a committed call leaves the version id at the one before it plus
\* the larger of the number of fine-grained and the number of
\* coarse-grained events it emitted.
C12_MaxOfEventCounts ==
    (Called /\ Returned)
        => versionId - last.pre.versionId
               = (IF Len(last.fine) >= Len(last.coarse) THEN Len(last.fine) ELSE Len(last.coarse))

\* A committed batch of two operations on one line: one fine-grained event
\* and two coarse-grained ones, and the version id is up by two.
C12_Witness ==
    /\ Called /\ Returned /\ NumOps = 2
    /\ Len(last.fine) = 1
    /\ Len(last.coarse) = 2
    /\ versionId = last.pre.versionId + 2

\* C13: over any call the version id does not decrease, a rejected call
\* leaves it as it is and a committed call advances it by at least one.
C13_VersionMonotone ==
    Called
        => /\ versionId >= last.pre.versionId
           /\ Threw => versionId = last.pre.versionId
           /\ Returned => versionId >= last.pre.versionId + 1

\* The version ids of a stream of events, in emission order.
VersionIdsOf(events) == [i \in 1..Len(events) |-> events[i].versionId]

\* The ids of a stream go up by one from event to event, end at the version
\* id the call left and are all above the version id before the call.
StampedInOrder(events) ==
    LET id == VersionIdsOf(events)
    IN  /\ \A i \in 1..(Len(events) - 1) : id[i + 1] = id[i] + 1
        /\ Len(events) > 0 => id[Len(events)] = versionId
        /\ \A i \in 1..Len(events) : id[i] > last.pre.versionId

\* C14: in each of the two streams of a committed call the events carry
\* consecutive version ids in emission order, the last one the final version
\* id, all of them above the version id before the call.
C14_ConsecutiveStamps ==
    (Called /\ Returned) => (StampedInOrder(last.fine) /\ StampedInOrder(last.coarse))

\* A committed call after an earlier committed one, with three fine-grained
\* events and two coarse-grained ones.
C14_Witness ==
    /\ Called /\ Returned
    /\ last.pre.versionId > 1
    /\ Len(last.fine) >= 3
    /\ Len(last.coarse) = 2
    /\ VersionIdsOf(last.coarse) = <<versionId - 1, versionId>>
    /\ C14_ConsecutiveStamps

\* The validated operations of the last batch in ascending order, and what
\* _applyEdits leaves of the buffer before the call when it is handed the
\* one operation _toSingleEditOperation builds from them.
SortedOperations == SortOperations(ValidateOperations(last.pre.L, EOL, last.raw), 1)

Collapsed ==
    applyEditsInner(last.pre.L, last.pre.mk, nextOid, last.pre.versionId, EOL,
                    <<toSingleEditOperation(last.pre.L, EOL, SortedOperations)>>, FALSE, FALSE)

\* C16: for a committed batch below the collapsing threshold, whose
\* operations were applied one by one, applying the one operation built by
\* _toSingleEditOperation to the buffer before the call leaves the same line
\* texts; a batch at the threshold, which was applied as that one operation,
\* left the text in which every range is replaced by its replacement.
C16_ReducerEquivalence ==
    (Called /\ Returned /\ NumOps >= 1)
        => IF NumOps < ReduceThreshold
           THEN LineTexts(Collapsed.L) = LineTexts(lines)
           ELSE TextOf(lines) = ExpectedText

\* A committed batch of two operations that start on different lines, one of
\* them with a line break in its text, which changed the buffer.
C16_Witness ==
    /\ Called /\ Returned /\ NumOps = 2
    /\ ValidatedRange(1).startLineNumber # ValidatedRange(2).startLineNumber
    /\ \E i \in 1..2 : Len(SplitLines(last.raw[i].text)) = 2
    /\ LineTexts(lines) # LineTexts(last.pre.L)
    /\ toSingleEditOperation(last.pre.L, EOL, SortedOperations).range
           = NewRange(1, ValidatedRange(InStartOrder[1]).startColumn,
                      2, ValidatedRange(InStartOrder[2]).endColumn)
    /\ LineTexts(Collapsed.L) = LineTexts(lines)

\* The range from the start of the operation that starts first to the end
\* of the one that ends last.
WholeSpan ==
    NewRange(getStartPosition(ValidatedRange(InStartOrder[1])).lineNumber,
             getStartPosition(ValidatedRange(InStartOrder[1])).column,
             getEndPosition(ValidatedRange(InStartOrder[NumOps])).lineNumber,
             getEndPosition(ValidatedRange(InStartOrder[NumOps])).column)

\* C17: the reducer hands back a batch of fewer than ReduceThreshold
\* operations as it is, the first ReduceThreshold - 1 operations of a larger
\* batch included, and makes one operation of a batch of ReduceThreshold or
\* more: its range is the whole span, its rangeLength the length of the
\* text the span covered, and it is the one operation the splice engine
\* reports.
C17_ReducerThreshold ==
    (Called /\ Returned /\ NumOps >= 1)
        => LET sorted  == SortedOperations
               reduced == reduceOperations(last.pre.L, EOL, sorted)
               prefix  == Array(SubSeq(sorted, 1, Min2(NumOps, ReduceThreshold - 1)))
           IN  /\ reduceOperations(last.pre.L, EOL, prefix) = prefix
               /\ IF NumOps < ReduceThreshold
                  THEN reduced = sorted
                  ELSE /\ Len(reduced) = 1
                       /\ reduced[1].range = WholeSpan
                       /\ reduced[1].rangeLength
                              = EndOffsets[InStartOrder[NumOps]] - StartOffsets[InStartOrder[1]]
                       /\ Len(last.coarse) = 1
                       /\ last.coarse[1].range = WholeSpan
                       /\ last.coarse[1].rangeLength = reduced[1].rangeLength

\* The committed batch of ReduceThreshold insertions: one coarse-grained
\* event, for columns 1 to ReduceThreshold of line 1.
C17_Witness ==
    /\ Called /\ Returned
    /\ NumOps = ReduceThreshold
    /\ Len(last.coarse) = 1
    /\ last.coarse[1].range = NewRange(1, 1, 1, ReduceThreshold)
    /\ last.coarse[1].rangeLength = ReduceThreshold - 1
    /\ Len(SortedOperations) = ReduceThreshold

(* ---------------- The model after dispose() ---------------------------- *)

\* The public entry points, by the name their calls are recorded under.
EntryPoints ==
    {"pushStackElement", "push", "edit", "undo", "redo", "setEditableRange",
     "hasEditableRange", "getEditableRange"}

\* What the call recorded in `last` found is what it left.
NothingChanged ==
    /\ lines = last.pre.L
    /\ markerIdToMarker = last.pre.mk
    /\ versionId = last.pre.versionId
    /\ hasEditableRange = last.pre.hasEditableRange
    /\ commandManager = last.pre.commandManager
    /\ isUndoing = last.pre.isUndoing
    /\ isRedoing = last.pre.isRedoing
    /\ isDisposed = last.pre.isDisposed

\* C18: a call of a public entry point on a disposed model throws, returns
\* nothing, emits no event, and leaves the lines, the markers, the version
\* id, the editable range and the command stack as they were; applyEdits
\* in particular throws with every line untouched.
C18_DisposedThrows ==
    (last.call \in EntryPoints /\ last.pre.isDisposed)
        => /\ Threw
           /\ NothingChanged
           /\ last.fine = <<>> /\ last.coarse = <<>>
           /\ last.inverse = <<>> /\ last.result = <<>>

\* applyEdits with an operation that would replace text inside the buffer
\* was called on a disposed model.
C18_Witness ==
    /\ last.call = "edit" /\ last.pre.isDisposed /\ Threw
    /\ NumOps = 1
    /\ last.raw[1].text = <<"X">>
    /\ ValidatedRange(1).startColumn < ValidatedRange(1).endColumn
    /\ last.error = "EditableTextModel.getEditableRange: Model is disposed"

(* ---------------- The editable range and the edit history -------------- *)

EmptyHistory ==
    /\ ~commandManager.null
    /\ commandManager.past = <<>>
    /\ commandManager.future = <<>>
    /\ ~commandManager.open

\* C19: setEditableRange(r) leaves an empty undo/redo stack for every r,
\* null included; afterwards hasEditableRange() is true iff r is not null
\* and getEditableRange() is the validated r, or the full buffer range for
\* null.  At any time each of the two markers of the editable range sits on
\* at most one line, and on exactly one iff there is an editable range.
\* After _resetValue there is no editable range and the history is empty.
C19_EditableRangeReplaced ==
    /\ \A id \in {EditStartId, EditEndId} :
          /\ Cardinality(Holders(id)) <= 1
          /\ (Cardinality(Holders(id)) = 1) <=> hasEditableRange
          /\ (id \in DOMAIN markerIdToMarker) <=> hasEditableRange
    /\ (last.call = "setEditableRange" /\ Returned)
          => /\ EmptyHistory
             /\ hasEditableRange <=> (Len(last.raw) # 0)
             /\ getEditableRange(lines, markerIdToMarker, hasEditableRange)
                   = IF Len(last.raw) # 0 THEN validateRange(last.pre.L, last.raw[1])
                     ELSE getFullModelRange(lines)
             /\ LineTexts(lines) = LineTexts(last.pre.L)
             /\ versionId = last.pre.versionId
    /\ last.call = "resetValue"
          => /\ EmptyHistory
             /\ ~hasEditableRange
             /\ getEditableRange(lines, markerIdToMarker, hasEditableRange)
                   = getFullModelRange(lines)

\* setEditableRange(r) was called with edits to undo on the stack and with
\* another editable range in place.
C19_Witness ==
    /\ last.call = "setEditableRange" /\ Returned
    /\ Len(last.raw) # 0
    /\ last.pre.hasEditableRange
    /\ last.pre.commandManager.past # <<>>
    /\ getEditableRange(last.pre.L, last.pre.mk, TRUE) # validateRange(last.pre.L, last.raw[1])
    /\ Len(lines) = 2
    /\ Holders(EditStartId) # Holders(EditEndId)

(* ---------------- The undo and redo flags of the events ---------------- *)

\* The pairs <<isUndoing, isRedoing>> the events of the last call carry.
FlagsOf(events) == {<<events[i].isUndoing, events[i].isRedoing>> : i \in 1..Len(events)}
EventFlags == FlagsOf(last.fine) \cup FlagsOf(last.coarse)

Whole(t) ==
    applyEdits(t.pre.L, t.pre.mk, t.pre.hasEditableRange, t.oid,
               t.pre.versionId, EOL, t.raw, t.pre.isUndoing, t.pre.isRedoing, FALSE)

\* C15: whenever a listener of a call runs, or a call made by one of its
\* listeners is in progress, the call has left its mutation phase: the
\* loop is over and the lines are flushed and renumbered.  The listener
\* finds every line under its own number, and until it edits the buffer
\* itself it finds the line texts and the version id that applyEdits leaves
\* behind; so no call starts to mutate the buffer while another is part-way
\* through its loop.
C15_EventsAfterMutation ==
    /\ \A k \in 1..Len(stack) :
          (stack[k].listening \/ k < Len(stack))
              => /\ stack[k].phase = "emit"
                 /\ stack[k].i > Len(stack[k].operations)
                 /\ stack[k].s.queue = <<>>
    /\ (stack # <<>> /\ Top.listening)
          => /\ C6_LineNumbers
             /\ ~Top.reentered
                   => /\ LineTexts(lines) = LineTexts(Whole(Top).L)
                      /\ versionId = Whole(Top).versionId
                      /\ Top.fine = Whole(Top).fine
                      /\ Top.coarse = Whole(Top).coarse

\* A listener of a call that changed the line count has called applyEdits
\* with two operations, and that call has spliced one of them.
C15_Witness ==
    /\ Len(stack) = 2
    /\ stack[1].listening
    /\ stack[1].s.delta # 0
    /\ Len(stack[2].operations) = 2
    /\ stack[2].phase = "splice"
    /\ stack[2].i = 2
    /\ stack[2].s.fine # <<>>

(* ---------------- Inserted lines --------------------------------------- *)

\* The only operation of the last call, validated.
OnlyOp == ValidateOperations(last.pre.L, EOL, last.raw)[1]

\* The positions in `events` of the events of one change type.
EventsOfType(events, changeType) ==
    {i \in 1..Len(events) : events[i].changeType = changeType}

\* The one position in set S.
The(S) == CHOOSE i \in S : TRUE

\* The last call had one operation and it adds more lines than its range
\* removes.
AddsLines == Called /\ Returned /\ NumOps = 1
             /\ InsertingLinesCnt(OnlyOp) > DeletingLinesCnt(OnlyOp)

EndsBefore(r1, r2) ==
    /\ isBeforeOrEqual(getEndPosition(r1), getStartPosition(r2))
    /\ getEndPosition(r1) # getStartPosition(r2)

\* C22 as stated: the reducer runs before the sort and the overlap check,
\* so a batch of ReduceThreshold operations or more is one operation when
\* the overlap check sees it and is never rejected for overlapping.
C22_ReducerBeforeOverlapCheck ==
    (Called /\ NumOps >= ReduceThreshold)
        => last.error # "Overlapping ranges are not allowed!"

\* C22, amended: the stages run in the order validation, ascending sort
\* with the overlap check, reducer, inverse calculation, descending
\* splice, emission.  A batch with two operations that share a position
\* is rejected whatever its size; the reducer collapses the sorted batch,
\* from the start of its first to the end of its last operation in
\* document order; the inverse operations come back in ascending order;
\* and the coarse events are emitted from the last operation in the
\* document to the first.
C22_OverlapCheckBeforeReducer ==
    Called =>
        /\ HasOverlap(SortedOperations)
              => (Threw /\ last.error = "Overlapping ranges are not allowed!"
                        /\ lines = last.pre.L)
        /\ (Returned /\ NumOps >= ReduceThreshold)
              => /\ Len(last.coarse) = 1
                 /\ getStartPosition(last.coarse[1].range)
                       = getStartPosition(SortedOperations[1].range)
                 /\ getEndPosition(last.coarse[1].range)
                       = getEndPosition(SortedOperations[NumOps].range)
        /\ Returned
              => /\ \A i \in 1..(Len(last.inverse) - 1) :
                        EndsBefore(last.inverse[i].range, last.inverse[i + 1].range)
                 /\ \A i \in 1..(Len(last.coarse) - 1) :
                        EndsBefore(last.coarse[i + 1].range, last.coarse[i].range)

\* A batch of ReduceThreshold operations, handed over out of document
\* order and with two insertions at one position, was rejected.
C22_Witness ==
    /\ Called /\ Threw
    /\ NumOps = ReduceThreshold
    /\ last.raw[1].range.startColumn > last.raw[2].range.startColumn
    /\ HasOverlap(SortedOperations)
    /\ last.error = "Overlapping ranges are not allowed!"

(* ---------------- The steps of the splice engine ----------------------- *)

\* What the callback of _applyEdits did in the last call, step by step.
StepsTaken ==
    applyEdits(last.pre.L, last.pre.mk, last.pre.hasEditableRange, nextOid,
               last.pre.versionId, EOL, last.raw, last.pre.isUndoing, last.pre.isRedoing,
               last.pre.isDisposed).log

IsOperationStep(e) == e.kind = "operation"
IsFlushStep(e) == e.kind = "flush"
IsLineEditsStep(e) == e.kind = "lineEdits"
IsStructureStep(e) == e.kind = "structure"
IsRenumberStep(e) == e.kind = "renumber"

\* The operations _applyEdits was handed by the last call.
Handed == reduceOperations(last.pre.L, EOL, SortedOperations)

\* C23: the loop of _applyEdits takes every operation once, each one
\* ending before the one taken before it starts, and when an operation is
\* taken the text in its range is the text that range had before the
\* call.
C23_DescendingOrder ==
    (Called /\ Returned) =>
        LET turns == SelectSeq(StepsTaken, IsOperationStep)
        IN  /\ Len(turns) = Len(Handed)
            /\ \A i \in 1..(Len(turns) - 1) : EndsBefore(turns[i + 1].range, turns[i].range)
            /\ \A i \in 1..Len(turns) :
                  turns[i].text = getValueInRange(last.pre.L, EOL, turns[i].range)

\* Two operations on a buffer of two lines: the one taken first has added
\* a line below the range of the one taken second, which replaces text.
C23_Witness ==
    /\ Called /\ Returned
    /\ NumOps = 2
    /\ Len(last.pre.L) = 2
    /\ Len(lines) = 3
    /\ LET turns == SelectSeq(StepsTaken, IsOperationStep)
       IN  /\ Len(turns) = 2
           /\ turns[2].text # <<>>
           /\ turns[1].range.startLineNumber = turns[2].range.endLineNumber

(* ---------------- One event per changed line --------------------------- *)

\* C24, for a call with one operation: no two line-changed events name
\* the same line, there is one lines-deleted event exactly when the
\* operation removes more lines than it adds, and one lines-inserted event
\* exactly when it adds more lines than it removes.
C24_OneEventPerLine ==
    (Called /\ Returned /\ NumOps = 1) =>
        /\ \A i, j \in EventsOfType(last.fine, "lineChanged") :
              last.fine[i].lineNumber = last.fine[j].lineNumber => i = j
        /\ Cardinality(EventsOfType(last.fine, "linesDeleted"))
              = IF DeletingLinesCnt(OnlyOp) > InsertingLinesCnt(OnlyOp) THEN 1 ELSE 0
        /\ Cardinality(EventsOfType(last.fine, "linesInserted"))
              = IF InsertingLinesCnt(OnlyOp) > DeletingLinesCnt(OnlyOp) THEN 1 ELSE 0

(* ---------------- One coarse event per operation ------------------------ *)

\* C25: a committed call emits one coarse-grained event for every
\* operation of the batch it was given, no-ops and batches at or above the
\* reducer threshold included; the events come in descending order of the
\* operations and each carries its operation's range, its text joined with
\* the line ending, and the line ending.
C25_CoarsePerOriginalOperation ==
    (Called /\ Returned) =>
        /\ Len(last.coarse) = NumOps
        /\ \A i \in 1..NumOps :
              LET op == SortedOperations[NumOps + 1 - i]
              IN  /\ last.coarse[i].range = op.range
                  /\ last.coarse[i].text = Join(op.lines, EOL)
                  /\ last.coarse[i].eol = EOL

(* ---------------- One call per line in a flush -------------------------- *)

Flushes(steps) == {f \in 1..Len(steps) : IsFlushStep(steps[f])}

\* The Line.applyEdits calls of the flush logged at f: the entries that
\* follow it up to the next entry of another kind.
CallsOfFlush(steps, f) ==
    {g \in (f + 1)..Len(steps) : \A h \in (f + 1)..g : IsLineEditsStep(steps[h])}

\* C26: in every flush each line gets one call, the calls together hold
\* every queued edit and each holds the edits queued for its line, the
\* edits of a call are in ascending column order and do not overlap, and
\* the edits of one line are next to each other in the queue.
C26_OneCallPerLine ==
    (Called /\ Returned) =>
        LET steps == StepsTaken
        IN  \A f \in Flushes(steps) :
                LET queue == steps[f].queue
                    calls == CallsOfFlush(steps, f)
                IN  /\ \A g, h \in calls : steps[g].from = steps[h].from => g = h
                    /\ \A g \in calls :
                          LET edits == steps[g].edits
                          IN  /\ Len(edits) =
                                    Cardinality({k \in 1..Len(queue) :
                                                    queue[k].lineNumber = steps[g].from})
                              /\ \A k \in 1..Len(edits) :
                                    /\ edits[k].lineNumber = steps[g].from
                                    /\ \E m \in 1..Len(queue) : queue[m] = edits[k]
                              /\ \A k \in 1..(Len(edits) - 1) :
                                    /\ edits[k].startColumn < edits[k + 1].startColumn
                                    /\ edits[k].endColumn <= edits[k + 1].startColumn
                    /\ \A k \in 1..Len(queue) :
                          \E g \in calls : steps[g].from = queue[k].lineNumber
                    /\ \A i, j, k \in 1..Len(queue) :
                          (i < j /\ j < k /\ queue[i].lineNumber = queue[k].lineNumber)
                              => queue[j].lineNumber = queue[i].lineNumber

\* A flush of three queued edits, two of them on one line.
C26_Witness ==
    /\ Called /\ Returned
    /\ LET steps == StepsTaken
       IN  \E f \in Flushes(steps) :
              /\ Len(steps[f].queue) = 3
              /\ Cardinality(CallsOfFlush(steps, f)) = 2
              /\ \E g \in CallsOfFlush(steps, f) : Len(steps[g].edits) = 2

(* ---------------- The queue is empty at structural changes ------------- *)

\* C27: whenever the splice engine splits a line, removes lines or
\* inserts a line, and when it renumbers at the end of the callback (the
\* step before the events are stamped), no single-line edit is waiting in
\* the queue; every edit that was queued has by then been handed to its
\* line by a flush.
C27_QueueEmptyAtStructure ==
    (Called /\ Returned) =>
        LET steps == StepsTaken
        IN  /\ \A i \in 1..Len(steps) :
                  (IsStructureStep(steps[i]) \/ IsRenumberStep(steps[i]))
                      => steps[i].queue = <<>>
            /\ Len(steps) >= 1
            /\ IsRenumberStep(steps[Len(steps)])
            /\ \A i \in 1..(Len(steps) - 1) :
                  (steps[i].queue # <<>> /\ steps[i + 1].queue = <<>>)
                      => \E f \in Flushes(steps) :
                            /\ f <= i
                            /\ steps[f].queue = steps[i].queue
                            /\ \A h \in (f + 1)..i : IsLineEditsStep(steps[h])

\* A call in which one flush comes before a structural change and another
\* before the renumbering.
C27_Witness ==
    /\ Called /\ Returned
    /\ LET steps == StepsTaken
       IN  \E f, g \in Flushes(steps) :
              /\ f < g
              /\ \E i \in (f + 1)..(g - 1) : IsStructureStep(steps[i])
              /\ \A i \in (g + 1)..(Len(steps) - 1) : IsLineEditsStep(steps[i])

(* ---------------- What the renumbering pass covers ---------------------- *)

SmallestStartLine == SortedOperations[1].range.startLineNumber
LargestEndLine == SortedOperations[NumOps].range.endLineNumber
NetLineDelta == Len(lines) - Len(last.pre.L)

\* C28: after a committed call the lines before the smallest start line
\* of its operations are the Lines they were, with their text and line
\* number; the renumbering pass runs from that smallest start line to
\* the line after the largest end line (as far as the buffer has one)
\* when the line count did not change and to the end of the buffer when
\* it did; the lines after the largest end line keep their Line and text
\* and have moved by the change of the line count.
C28_RenumberedLines ==
    (Called /\ Returned /\ NumOps >= 1) =>
        LET renumbered == SelectSeq(StepsTaken, IsRenumberStep)
        IN  /\ \A n \in 1..(SmallestStartLine - 1) :
                  /\ lines[n].oid = last.pre.L[n].oid
                  /\ lines[n].text = last.pre.L[n].text
                  /\ lines[n].lineNumber = last.pre.L[n].lineNumber
            /\ Len(renumbered) = 1
            /\ {n \in 1..Len(lines) : renumbered[1].from <= n /\ n <= renumbered[1].to}
                  = IF NetLineDelta = 0
                    THEN {n \in 1..Len(lines) :
                             SmallestStartLine <= n /\ n <= LargestEndLine + 1}
                    ELSE {n \in 1..Len(lines) : SmallestStartLine <= n}
            /\ \A n \in (LargestEndLine + 1)..Len(last.pre.L) :
                  /\ lines[n + NetLineDelta].oid = last.pre.L[n].oid
                  /\ lines[n + NetLineDelta].text = last.pre.L[n].text
                  /\ lines[n + NetLineDelta].lineNumber = n + NetLineDelta

\* An operation on the second of three lines that adds a line: the first
\* line stays, the third becomes the fourth.
C28_Witness ==
    /\ Called /\ Returned /\ NumOps >= 1
    /\ SmallestStartLine > 1
    /\ LargestEndLine < Len(last.pre.L)
    /\ NetLineDelta # 0

(* ---------------- A mirror fed with the fine-grained events ------------- *)

\* One event applied to a mirror, a sequence of line texts: line-changed
\* sets the line to the event's detail, lines-deleted removes the lines
\* from..to, lines-inserted puts the lines of its detail in at from.
MirrorApply(texts, e) ==
    IF e.changeType = "lineChanged"
    THEN [texts EXCEPT ![e.lineNumber] = e.detail]
    ELSE IF e.changeType = "linesDeleted"
    THEN SubSeq(texts, 1, e.fromLineNumber - 1) \o SubSeq(texts, e.toLineNumber + 1, Len(texts))
    ELSE SubSeq(texts, 1, e.fromLineNumber - 1) \o SplitLF(e.detail)
             \o SubSeq(texts, e.fromLineNumber, Len(texts))

RECURSIVE MirrorReplay(_, _, _)
MirrorReplay(texts, events, i) ==
    IF i > Len(events) THEN texts
    ELSE MirrorReplay(Array(MirrorApply(texts, events[i])), events, i + 1)

\* C29: the fine-grained events of a committed call, applied in the
\* order of emission to the line texts the buffer had before the call, give
\* the line texts it has after the call; every lines-inserted event names
\* as many lines as its detail holds.
C29_MirrorFollows ==
    (Called /\ Returned) =>
        /\ MirrorReplay(Array(LineTexts(last.pre.L)), last.fine, 1) = Array(LineTexts(lines))
        /\ \A i \in EventsOfType(last.fine, "linesInserted") :
              Len(SplitLF(last.fine[i].detail))
                  = last.fine[i].toLineNumber - last.fine[i].fromLineNumber + 1

\* A call that emitted events of all three kinds.
C29_Witness ==
    /\ Called /\ Returned
    /\ EventsOfType(last.fine, "lineChanged") # {}
    /\ EventsOfType(last.fine, "linesDeleted") # {}
    /\ EventsOfType(last.fine, "linesInserted") # {}
    /\ LineTexts(lines) # LineTexts(last.pre.L)

(* ---------------- The inverse batch passes the overlap check ----------- *)

\* C30: the inverse operations a committed call returns are in ascending
\* document order with every one ending strictly before every later one
\* starts, the overlap check finds nothing in them when they are validated
\* against the buffer the call left, and a call that handed an inverse
\* batch back was not rejected for overlapping ranges.
C30_InverseNeverOverlaps ==
    /\ (Called /\ Returned) =>
          /\ \A i, j \in 1..Len(last.inverse) :
                i < j => EndsBefore(last.inverse[i].range, last.inverse[j].range)
          /\ Len(last.inverse) >= 1
                => ~HasOverlap(SortOperations(ValidateOperations(lines, EOL, last.inverse), 1))
    /\ last.call = "inverse" => last.error # "Overlapping ranges are not allowed!"

\* An inverse batch of two operations on one line was handed back and
\* accepted, and its own inverse has two operations again.
C30_Witness ==
    /\ last.call = "inverse" /\ Returned
    /\ NumOps = 2
    /\ Len(last.inverse) = 2
    /\ last.raw[1].range.endLineNumber = last.raw[2].range.startLineNumber
    /\ last.inverse[1].range.endLineNumber = last.inverse[2].range.startLineNumber

(* ---------------- The flags after undo() and redo() --------------------- *)

\* C31: when a call of undo() or redo() on a model that is not disposed
\* has ended, with a value, with null or with an error of the command
\* stack, _isUndoing and _isRedoing are both false; and every event of a
\* call of applyEdits or pushEditOperations carries both flags false.
C31_FlagsResetAfterReplay ==
    /\ (last.call \in {"undo", "redo"} /\ ~last.pre.isDisposed)
          => (~isUndoing /\ ~isRedoing)
    /\ last.call \in {"edit", "push"} => EventFlags \subseteq {<<FALSE, FALSE>>}

(* ---------------- The empty batch ---------------------------------------- *)

\* C32: applyEdits with no operation at all returns an empty list of
\* inverse operations, emits no event and leaves the lines, the markers and
\* the version id as they were.
C32_EmptyBatchReturns ==
    (Called /\ NumOps = 0) =>
        /\ Returned
        /\ last.inverse = <<>>
        /\ last.fine = <<>> /\ last.coarse = <<>>
        /\ lines = last.pre.L
        /\ markerIdToMarker = last.pre.mk
        /\ versionId = last.pre.versionId

(* ---------------- The order of emission ---------------------------------- *)

IsCoarse(e) == "range" \in DOMAIN e

\* The events a call has handed to listeners so far.
Delivered(t) == SubSeq(Emitted(t.fine, t.coarse), 1, t.delivered)

\* C33: of the events a call has emitted so far, a coarse-grained one is
\* followed by coarse-grained ones only and comes after every fine-grained
\* event of the call; each later coarse-grained event has a range that ends
\* before the range of the earlier one starts, and a larger version id.
C33_EmissionOrder ==
    \A k \in 1..Len(stack) :
        stack[k].phase = "emit" =>
            LET em == Delivered(stack[k])
            IN  \A i \in 1..Len(em) :
                    IsCoarse(em[i]) =>
                        /\ i > Len(stack[k].fine)
                        /\ \A j \in (i + 1)..Len(em) :
                              /\ IsCoarse(em[j])
                              /\ EndsBefore(em[j].range, em[i].range)
                              /\ em[i].versionId < em[j].versionId

\* A call has emitted all its events: fine-grained ones and two
\* coarse-grained ones.
C33_Witness ==
    /\ stack # <<>>
    /\ Top.phase = "emit"
    /\ Top.delivered = Len(Top.fine) + Len(Top.coarse)
    /\ Len(Top.fine) >= 2
    /\ Len(Top.coarse) = 2

(* ---------------- The loading timer of the suggest widget --------------- *)

\* C34: the loading timer moves the widget to Loading only while a manual
\* trigger handled in the Hidden state is unanswered, that is before the
\* next onDidSuggest or onDidCancel; and nothing but the timer moves the
\* widget to Loading.
C34_LoadingOnlyWhileAwaiting ==
    /\ widget.event = "loadingTimeout" => widget.awaiting
    /\ (widget.state = "Loading" /\ widget.from # "Loading")
          => (widget.event = "loadingTimeout" /\ widget.awaiting)

(* ---------------- The Details state of the suggest widget --------------- *)

\* C35: the widget comes to Details only by toggleDetails in Open with a
\* focused item that has documentation; toggleDetails and cancel in
\* Details lead to Open and do not cancel the model; cancel in any other
\* state cancels the model; in Hidden getPosition returns null and the
\* selection commands and acceptSelectedSuggestion return false.
C35_DetailsAndHidden ==
    /\ (widget.state = "Details" /\ widget.from # "Details")
          => /\ widget.event = "toggleDetails"
             /\ widget.from = "Open"
             /\ widget.focus \in 1..Len(widget.list)
             /\ widget.list[widget.focus]
    /\ (widget.event \in {"toggleDetails", "cancel"} /\ widget.from = "Details")
          => (widget.state = "Open" /\ ~widget.cancelled)
    /\ (widget.event = "cancel" /\ widget.from # "Details") => widget.cancelled
    /\ (widget.event = "getPosition" /\ widget.from = "Hidden") => widget.result = "null"
    /\ (widget.event \in SelectCommands \cup {"acceptSelectedSuggestion"}
            /\ widget.from = "Hidden")
          => widget.result = "false"

\* cancel() in Details has brought the widget back to Open, the focus on
\* the documented item.
C35_Witness ==
    /\ widget.event = "cancel"
    /\ widget.from = "Details"
    /\ widget.state = "Open"
    /\ ~widget.cancelled
    /\ widget.list[widget.focus]

====
